---- MODULE Spec2Model ----
(***************************************************************************)
(* Model of the MoneyTracker transaction engine (logic.py), its storage    *)
(* layer (storage.py) and the dashboard / transaction-screen handlers      *)
(* (app.py).                                                               *)
(*                                                                         *)
(* Money: a Transaction's amount, a balance and a share are held in cents  *)
(* (the code's 2-decimal floats); a raw amount typed by the user is held   *)
(* in mills (thousandths), so that normalize_amount's rounding is a real   *)
(* conversion.  Dates are <<year, month, day>>.  Strings are TLA+ strings; *)
(* `in', lower(), upper() and strip() are computed character by character. *)
(***************************************************************************)
EXTENDS Integers, Sequences, FiniteSets, TLC

VARIABLES
    ledger,     \* the in-memory Sequence[Transaction] handed to the engine
    op,         \* the last engine call applied to the ledger, with its arguments
    result,     \* the value returned by the last allocator / summary call
    rows,       \* the persisted transactions.csv of the current user
    pending,    \* submit_expense: rows built and validated, not yet appended
    last,       \* the last handler that ran on the persisted ledger
    settings,   \* the persisted settings.json of the current user
    today,      \* the day read by date.today()
    drawn,      \* number of uuid4 identifiers drawn so far
    now         \* the clock read by datetime.utcnow()

vars == <<ledger, op, result, rows, pending, last, settings, today, drawn, now>>

(***************************************************************************)
(* Bounds                                                                  *)
(***************************************************************************)
MaxSeed == 2          \* transactions already in the ledger before a call
MaxSplits == 4        \* participants of one shared transaction
MaxShared == 2        \* shared transactions handed to summarize_shared_expenses
MaxRows == 3          \* persisted rows
MaxDrawn == 4         \* uuid4 identifiers drawn by the handlers of one run
MaxClock == 3         \* highest reading of the clock by the handlers of one run

(***************************************************************************)
(* String helpers: str.lower(), str.upper(), str.strip(), `a in b'         *)
(***************************************************************************)
UpperChars == "ABCDEFGHIJKLMNOPQRSTUVWXYZ"
LowerChars == "abcdefghijklmnopqrstuvwxyz"

Char(s, i) == SubSeq(s, i, i)

LowerTable ==
    [c \in {Char(UpperChars, i) : i \in 1..26} |->
        Char(LowerChars, CHOOSE i \in 1..26 : Char(UpperChars, i) = c)]
UpperTable ==
    [c \in {Char(LowerChars, i) : i \in 1..26} |->
        Char(UpperChars, CHOOSE i \in 1..26 : Char(LowerChars, i) = c)]

LowerChar(c) == IF c \in DOMAIN LowerTable THEN LowerTable[c] ELSE c
UpperChar(c) == IF c \in DOMAIN UpperTable THEN UpperTable[c] ELSE c

RECURSIVE Lower(_)
Lower(s) == IF Len(s) = 0 THEN "" ELSE LowerChar(Char(s, 1)) \o Lower(SubSeq(s, 2, Len(s)))

RECURSIVE Upper(_)
Upper(s) == IF Len(s) = 0 THEN "" ELSE UpperChar(Char(s, 1)) \o Upper(SubSeq(s, 2, Len(s)))

RECURSIVE Strip(_)
Strip(s) ==
    IF Len(s) = 0 THEN ""
    ELSE IF Char(s, 1) = " " THEN Strip(SubSeq(s, 2, Len(s)))
    ELSE IF Char(s, Len(s)) = " " THEN Strip(SubSeq(s, 1, Len(s) - 1))
    ELSE s

\* Python's `term in text' on strings
Contains(text, term) ==
    \E i \in 1..(Len(text) - Len(term) + 1) : SubSeq(text, i, i + Len(term) - 1) = term

AnyTermIn(terms, text) == \E t \in terms : Contains(text, t)

(***************************************************************************)
(* Numeric helpers                                                         *)
(***************************************************************************)
Abs(x) == IF x < 0 THEN -x ELSE x
Max(a, b) == IF a >= b THEN a ELSE b
Min(a, b) == IF a <= b THEN a ELSE b

\* round(x, 2) of the double nearest to m/1000: the mills values ending in 5
\* (exact decimal ties) that CPython rounds up, because the double lies above
\* the tie; the others (15, 45, 75, 105, ...) lie below it and round down.
HalfUpMills == {5, 25, 35, 55, 65, 85, 95, 115}

RoundMills(m) ==
    LET q == m \div 10
        r == m % 10
    IN  IF r < 5 THEN q
        ELSE IF r > 5 THEN q + 1
        ELSE IF m \in HalfUpMills THEN q + 1 ELSE q

\* round(c / 100 / k, 2) in cents: the (cents, count) pairs whose quotient is an
\* exact half cent and whose double CPython rounds up.
HalfUpShares ==
    { <<1, 2>>, <<3, 2>>, <<5, 2>>, <<7, 2>>, <<11, 2>>, <<13, 2>>, <<17, 2>>, <<19, 2>>,
      <<2, 4>>, <<10, 4>>, <<14, 4>>, <<22, 4>>, <<26, 4>>, <<3, 6>>, <<15, 6>>, <<21, 6>>, <<27, 6>> }

RoundShare(c, k) ==
    LET q == c \div k
        r == c % k
    IN  IF 2 * r < k THEN q
        ELSE IF 2 * r > k THEN q + 1
        ELSE IF <<c, k>> \in HalfUpShares THEN q + 1 ELSE q

(***************************************************************************)
(* Configuration and constants (logic.py)                                  *)
(***************************************************************************)
ALLOWED_TX_TYPES == {"income", "expense", "transfer"}
ALLOWED_DEVICES ==
    {"UPI", "CREDIT_CARD", "CREDIT_CARD_UPI", "CASH", "DEBIT", "BANK_TRANSFER",
     "OTHER", "SAVINGS_WITHDRAW", "DEBT_BORROWED"}
DEBT_CLEARED_CATEGORY == "Debt Cleared"
CREDIT_CARD_DEVICES == {"CREDIT_CARD", "CREDIT_CARD_UPI"}
DEFAULT_CREDIT_CARD_EXPENSE_SUB_TYPE == "credit_card_expense"
CREDIT_CARD_PAYMENT_SUB_TYPE == "credit_card_payment"
DEFAULT_CREDIT_CARD_DEBT_SUB_TYPE == "credit_card_debt"
DEFAULT_SUB_TYPE == "regular"

\* SharedSplit.amount: None, or a raw number
None == <<>>
Some(x) == <<x>>

\* normalize_amount: round(abs(float(amount)), 2); mills in, cents out
normalize_amount(amount) == RoundMills(Abs(amount))

\* a 2-decimal amount (cents) passed on as a float argument (mills)
AsRaw(cents) == cents * 10

\* uuid.uuid4().hex: the n-th identifier drawn
new_transaction_id(n) == "id" \o ToString(n)

(***************************************************************************)
(* Transaction factory                                                     *)
(***************************************************************************)
Transaction(id, ts, tx_type, sub_type, amount, date, description, category, device, effects_balance, shared_flag, shared_splits, shared_notes) ==
    [ id |-> id, timestamp |-> ts, tx_type |-> tx_type, sub_type |-> sub_type,
      amount |-> amount, date |-> date, description |-> description,
      category |-> category, device |-> device, location |-> "", occasion |-> "",
      effects_balance |-> effects_balance, linked_tx_id |-> "",
      shared_flag |-> shared_flag, shared_splits |-> shared_splits,
      shared_notes |-> shared_notes ]

CleanedDevice(device) ==
    LET cleaned == IF device # "" THEN Upper(device) ELSE "OTHER"
    IN  IF cleaned \notin ALLOWED_DEVICES THEN "OTHER" ELSE cleaned

\* the factory keeping shared_flag as it was passed
create_transaction_KeepsFlag(tx_type, n, ts, amount, date_value, description, category, device, sub_type, effects_balance, shared_flag, shared_splits, shared_notes) ==
    Transaction(new_transaction_id(n), ts, tx_type, sub_type, normalize_amount(amount),
                date_value, description, category, CleanedDevice(device), effects_balance,
                shared_flag, shared_splits, IF shared_flag THEN shared_notes ELSE "")

\* the body shared by create_expense_transaction and create_income_transaction
create_transaction(tx_type, n, ts, amount, date_value, description, category, device, sub_type, effects_balance, shared_flag, shared_splits, shared_notes) ==
    Transaction(new_transaction_id(n), ts, tx_type, sub_type, normalize_amount(amount),
                date_value, description, category, CleanedDevice(device), effects_balance,
                shared_flag /\ shared_splits # <<>>, shared_splits,
                IF shared_flag /\ shared_splits # <<>> THEN shared_notes ELSE "")

create_expense_transaction(n, ts, amount, date_value, description, category, device, sub_type, effects_balance, shared_flag, shared_splits, shared_notes) ==
    create_transaction("expense", n, ts, amount, date_value, description, category, device,
                       sub_type, effects_balance, shared_flag, shared_splits, shared_notes)

create_income_transaction(n, ts, amount, date_value, description, category, device, sub_type, effects_balance, shared_flag, shared_splits, shared_notes) ==
    create_transaction("income", n, ts, amount, date_value, description, category, device,
                       sub_type, effects_balance, shared_flag, shared_splits, shared_notes)

\* link_id: parent's, else child's, else a fresh uuid (the n-th)
link_transactions(parent, child, n) ==
    LET link_id == IF parent.linked_tx_id # "" THEN parent.linked_tx_id
                   ELSE IF child.linked_tx_id # "" THEN child.linked_tx_id
                   ELSE new_transaction_id(n)
    IN  << [parent EXCEPT !.linked_tx_id = link_id],
           [child EXCEPT !.linked_tx_id = link_id] >>

\* draws three identifiers: n (expense), n+1 (debt), n+2 (link)
create_credit_card_expense(n, ts, amount, date_value, description, category, device, shared_flag, shared_splits, shared_notes) ==
    LET normalized_amount == normalize_amount(amount)
        upper == IF device # "" THEN Upper(device) ELSE "OTHER"
        normalized_device == IF upper \notin CREDIT_CARD_DEVICES THEN "CREDIT_CARD" ELSE upper
        expense_tx == create_expense_transaction(n, ts, AsRaw(normalized_amount), date_value,
                          description, category, normalized_device,
                          DEFAULT_CREDIT_CARD_EXPENSE_SUB_TYPE, FALSE,
                          shared_flag, shared_splits, shared_notes)
        debt_tx == create_income_transaction(n + 1, ts, AsRaw(normalized_amount), date_value,
                          "Debt for: " \o description, "Debt", normalized_device,
                          DEFAULT_CREDIT_CARD_DEBT_SUB_TYPE, FALSE, FALSE, <<>>, "")
    IN  link_transactions(expense_tx, debt_tx, n + 2)

create_credit_card_payment(n, ts, amount, date_value, description, category, device) ==
    create_expense_transaction(n, ts, amount, date_value, description, category, device,
                               CREDIT_CARD_PAYMENT_SUB_TYPE, TRUE, FALSE, <<>>, "")

create_debt_clearance_transaction(n, ts, amount, date_value, description, device) ==
    create_expense_transaction(n, ts, amount, date_value, description, "Debt", device,
                               DEFAULT_CREDIT_CARD_DEBT_SUB_TYPE, FALSE, FALSE, <<>>, "")

(***************************************************************************)
(* Core computations                                                       *)
(***************************************************************************)
\* compute_balance without the DEBT_BORROWED skip
BalanceStep_CountsBorrowed(balance, tx) ==
    IF ~tx.effects_balance THEN balance
    ELSE IF tx.sub_type \in {DEFAULT_CREDIT_CARD_EXPENSE_SUB_TYPE,
                              DEFAULT_CREDIT_CARD_DEBT_SUB_TYPE} THEN balance
    ELSE IF tx.tx_type = "income" THEN balance + tx.amount
    ELSE IF tx.tx_type = "expense" THEN balance - tx.amount
    ELSE balance

\* one iteration of compute_balance's loop
BalanceStep(balance, tx) ==
    IF ~tx.effects_balance THEN balance
    ELSE IF tx.sub_type \in {DEFAULT_CREDIT_CARD_EXPENSE_SUB_TYPE,
                              DEFAULT_CREDIT_CARD_DEBT_SUB_TYPE} THEN balance
    ELSE IF tx.device = "DEBT_BORROWED" THEN balance
    ELSE IF tx.tx_type = "income" THEN balance + tx.amount
    ELSE IF tx.tx_type = "expense" THEN balance - tx.amount
    ELSE balance

RECURSIVE BalanceFrom(_, _, _)
BalanceFrom(transactions, i, balance) ==
    IF i > Len(transactions) THEN balance
    ELSE BalanceFrom(transactions, i + 1, BalanceStep(balance, transactions[i]))

\* the closing round(balance, 2) only removes float noise from a sum of
\* 2-decimal amounts, which cents do not have
compute_balance(transactions, initial_balance) ==
    BalanceFrom(transactions, 1, initial_balance)

\* (cycle_start, cycle_end) of the billing cycle holding tx_date
get_billing_cycle(tx_date) ==
    LET y == tx_date[1]
        m == tx_date[2]
        d == tx_date[3]
    IN  IF d >= 19
        THEN << <<y, m, 19>>, IF m = 12 THEN <<y + 1, 1, 20>> ELSE <<y, m + 1, 20>> >>
        ELSE << IF m = 1 THEN <<y - 1, 12, 19>> ELSE <<y, m - 1, 19>>, <<y, m, 20>> >>

PAYMENT_TERMS == {"payment", "bill", "paid", "clear", "settle", "repay"}
CREDIT_CARD_TERMS == {"credit card", "creditcard", "cc "}

\* is_credit_card, on the upper-cased device and lower-cased description, category
is_credit_card(device, description, category) ==
    \/ device \in CREDIT_CARD_DEVICES
    \/ AnyTermIn(CREDIT_CARD_TERMS, description)
    \/ (Contains(category, "credit") /\ Contains(category, "card"))

is_payment(description) == AnyTermIn(PAYMENT_TERMS, description)

NoTotals == [expenses |-> 0, payments |-> 0]

DebtStep_Unclamped(st, tx) ==
    IF tx.tx_type # "expense" THEN st
    ELSE
      LET device == Upper(tx.device)
          description == Lower(tx.description)
          category == Lower(tx.category)
          amount == Abs(tx.amount)
          cycle_key == get_billing_cycle(tx.date)
          totals == IF cycle_key \in DOMAIN st.cycle_totals
                    THEN st.cycle_totals
                    ELSE (cycle_key :> NoTotals) @@ st.cycle_totals
          seen == [st EXCEPT !.cycle_totals = totals]
      IN  IF device = "DEBT_BORROWED"
            THEN IF ~AnyTermIn({"payment", "cleared"}, description)
                 THEN [seen EXCEPT !.borrowed_debt = @ + amount]
                 ELSE seen
          ELSE IF Contains(category, Lower(DEBT_CLEARED_CATEGORY))
            THEN [seen EXCEPT !.borrowed_debt = @ - amount]
          ELSE IF ~is_credit_card(device, description, category)
            THEN IF AnyTermIn({"borrowed", "loan"}, category)
                 THEN [seen EXCEPT !.borrowed_debt = @ + amount]
                 ELSE seen
          ELSE IF is_payment(description)
            THEN [seen EXCEPT !.cycle_totals[cycle_key].payments = @ + amount]
          ELSE [seen EXCEPT !.cycle_totals[cycle_key].expenses = @ + amount]

\* one iteration of the first pass of compute_outstanding_debt; st holds
\* cycle_totals and borrowed_debt (is_current only feeds the printed breakdown)
DebtStep(st, tx) ==
    IF tx.tx_type # "expense" THEN st
    ELSE
      LET device == Upper(tx.device)
          description == Lower(tx.description)
          category == Lower(tx.category)
          amount == Abs(tx.amount)
          cycle_key == get_billing_cycle(tx.date)
          totals == IF cycle_key \in DOMAIN st.cycle_totals
                    THEN st.cycle_totals
                    ELSE (cycle_key :> NoTotals) @@ st.cycle_totals
          seen == [st EXCEPT !.cycle_totals = totals]
      IN  IF device = "DEBT_BORROWED"
            THEN IF ~AnyTermIn({"payment", "cleared"}, description)
                 THEN [seen EXCEPT !.borrowed_debt = @ + amount]
                 ELSE seen
          ELSE IF Contains(category, Lower(DEBT_CLEARED_CATEGORY))
            THEN LET payment == Min(st.borrowed_debt, amount)
                 IN  [seen EXCEPT !.borrowed_debt = Max(0, @ - payment)]
          ELSE IF ~is_credit_card(device, description, category)
            THEN IF AnyTermIn({"borrowed", "loan"}, category)
                 THEN [seen EXCEPT !.borrowed_debt = @ + amount]
                 ELSE seen
          ELSE IF is_payment(description)
            THEN [seen EXCEPT !.cycle_totals[cycle_key].payments = @ + amount]
          ELSE [seen EXCEPT !.cycle_totals[cycle_key].expenses = @ + amount]

RECURSIVE DebtPass(_, _, _)
DebtPass(transactions, i, st) ==
    IF i > Len(transactions) THEN st
    ELSE DebtPass(transactions, i + 1, DebtStep(st, transactions[i]))

\* sum(totals[field] for totals in cycle_totals.values())
RECURSIVE SumCycles(_, _, _)
SumCycles(cycle_totals, keys, field) ==
    IF keys = {} THEN 0
    ELSE LET k == CHOOSE k \in keys : TRUE
         IN  cycle_totals[k][field] + SumCycles(cycle_totals, keys \ {k}, field)

\* cycle-by-cycle netting, each cycle floored at zero
RECURSIVE SumCycleFloors(_, _)
SumCycleFloors(cycle_totals, keys) ==
    IF keys = {} THEN 0
    ELSE LET k == CHOOSE k \in keys : TRUE
         IN  Max(0, cycle_totals[k].expenses - cycle_totals[k].payments)
               + SumCycleFloors(cycle_totals, keys \ {k})

TotalCreditCardDebt_PerCycle(cycle_totals) ==
    SumCycleFloors(cycle_totals, DOMAIN cycle_totals)

\* credit_card_debt from the per-cycle buckets
TotalCreditCardDebt(cycle_totals) ==
    LET all_expenses == SumCycles(cycle_totals, DOMAIN cycle_totals, "expenses")
        all_payments == SumCycles(cycle_totals, DOMAIN cycle_totals, "payments")
    IN  Max(0, all_expenses - all_payments)

\* returns <<credit_card_debt, borrowed_debt>>
compute_outstanding_debt(transactions) ==
    LET st == DebtPass(transactions, 1, [cycle_totals |-> <<>>, borrowed_debt |-> 0])
    IN  << TotalCreditCardDebt(st.cycle_totals), st.borrowed_debt >>

(***************************************************************************)
(* Engine specification: a ledger of factory-built transactions, and one   *)
(* more factory call appended to it.                                       *)
(***************************************************************************)
Date1 == <<2024, 12, 25>>     \* cycle 2024-12-19 .. 2025-01-20
Date2 == <<2025, 1, 25>>      \* cycle 2025-01-19 .. 2025-02-20
Dates == {Date1, Date2}
Amounts == {3000, -1256}                                 \* raw amounts, mills
Descriptions == {"lunch", "Card Bill", "credit card fee"}
Categories == {"Food", "Debt Cleared", "Credit Card Payment"}
Devices == {"upi", "CREDIT_CARD", "DEBT_BORROWED"}
Factories == {"expense", "income", "cc_expense", "cc_payment", "clearance"}

Calls ==
    [f : Factories \ {"clearance"}, amount : Amounts, date : Dates,
     description : Descriptions, category : Categories, device : Devices]
    \cup
    [f : {"clearance"}, amount : Amounts \cup {2000}, date : Dates,
     description : {"Debt cleared"}, category : {"Debt"}, device : {"BANK_TRANSFER"}]
    \cup
    [f : {"expense"}, amount : Amounts, date : {Date1}, description : {"Loan payment"},
     category : {"Food", "Debt Cleared"}, device : {"upi", "DEBT_BORROWED"}]

\* the calls that built the ledger before the call under study
SeedCalls ==
    [f : {"expense"}, amount : {2000}, date : Dates, description : {"lunch"},
     category : {"Food"}, device : {"CREDIT_CARD"}]
    \cup
    [f : {"expense"}, amount : {2000}, date : {Date2}, description : {"Card Bill"},
     category : {"Food"}, device : {"CREDIT_CARD"}]
    \cup
    [f : {"expense"}, amount : {2000}, date : {Date1}, description : {"lunch"},
     category : {"Food"}, device : {"DEBT_BORROWED"}]
    \cup
    [f : {"expense"}, amount : {2000}, date : {Date1}, description : {"lunch"},
     category : {"Debt Cleared"}, device : {"upi"}]
    \cup
    [f : {"income"}, amount : {2000}, date : {Date1}, description : {"lunch"},
     category : {"Food"}, device : {"upi"}]

\* the transactions one factory call returns, as a sequence; n uuids drawn before
ApplyCall(c, n, ts) ==
    CASE c.f = "expense" ->
           << create_expense_transaction(n + 1, ts, c.amount, c.date, c.description,
                  c.category, c.device, DEFAULT_SUB_TYPE, TRUE, FALSE, <<>>, "") >>
      [] c.f = "income" ->
           << create_income_transaction(n + 1, ts, c.amount, c.date, c.description,
                  c.category, c.device, DEFAULT_SUB_TYPE, TRUE, FALSE, <<>>, "") >>
      [] c.f = "cc_expense" ->
           create_credit_card_expense(n + 1, ts, c.amount, c.date, c.description,
                  c.category, c.device, FALSE, <<>>, "")
      [] c.f = "cc_payment" ->
           << create_credit_card_payment(n + 1, ts, c.amount, c.date, c.description,
                  c.category, c.device) >>
      [] c.f = "clearance" ->
           << create_debt_clearance_transaction(n + 1, ts, c.amount, c.date,
                  c.description, c.device) >>

DrawnBy(c) == IF c.f = "cc_expense" THEN 3 ELSE 1

RECURSIVE BuildLedger(_, _, _, _)
BuildLedger(calls, i, acc, n) ==
    IF i > Len(calls) THEN acc
    ELSE BuildLedger(calls, i + 1, acc \o ApplyCall(calls[i], n, i), n + DrawnBy(calls[i]))

RECURSIVE DrawnByAll(_, _)
DrawnByAll(calls, i) ==
    IF i > Len(calls) THEN 0 ELSE DrawnBy(calls[i]) + DrawnByAll(calls, i + 1)

SeedSeqs == UNION { [1..k -> SeedCalls] : k \in 0..MaxSeed }

NoCall == [f |-> "none", amount |-> 0, date |-> Date1, description |-> "",
           category |-> "", device |-> ""]
NoOp == [call |-> NoCall, count |-> 0]
NoResult == [kind |-> "none"]
NoLast == [handler |-> "none"]
NoSettings == [last_debt_cleared |-> ""]

InitEngine ==
    /\ \E calls \in SeedSeqs :
          /\ ledger = BuildLedger(calls, 1, <<>>, 0)
          /\ drawn = DrawnByAll(calls, 1)
          /\ now = Len(calls) + 1
    /\ op = NoOp
    /\ result = NoResult
    /\ rows = <<>>
    /\ pending = <<>>
    /\ last = NoLast
    /\ settings = NoSettings
    /\ today = Date1

\* append what factory f returns for one choice of its arguments
Add(f) ==
    /\ op.count = 0
    /\ \E c \in Calls :
          /\ c.f = f
          /\ LET txs == ApplyCall(c, drawn, now)
             IN  /\ ledger' = ledger \o txs
                 /\ op' = [call |-> c, count |-> Len(txs)]
                 /\ drawn' = drawn + DrawnBy(c)
                 /\ now' = now + 1
    /\ UNCHANGED <<result, rows, pending, last, settings, today>>

AddExpense == Add("expense")
AddIncome == Add("income")
AddCreditCardExpense == Add("cc_expense")
AddCreditCardPayment == Add("cc_payment")
AddDebtClearance == Add("clearance")

NextEngine ==
    \/ AddExpense
    \/ AddIncome
    \/ AddCreditCardExpense
    \/ AddCreditCardPayment
    \/ AddDebtClearance

Spec == InitEngine /\ [][NextEngine]_vars

\* the ledger before the last call, and the two engine figures
Before == SubSeq(ledger, 1, Len(ledger) - op.count)
Balances == {0, 100000}
Shifts == {-2500, 1, 30000}
CreditCardDebt(T) == compute_outstanding_debt(T)[1]
BorrowedDebt(T) == compute_outstanding_debt(T)[2]

(***************************************************************************)
(* Claims about the engine                                                 *)
(***************************************************************************)
RECURSIVE SumAmounts(_, _)
SumAmounts(T, idx) ==
    IF idx = {} THEN 0
    ELSE LET i == CHOOSE i \in idx : TRUE
         IN  T[i].amount + SumAmounts(T, idx \ {i})

\* a transaction compute_balance counts
Counted(tx) ==
    /\ tx.effects_balance
    /\ tx.sub_type \notin {"credit_card_expense", "credit_card_debt"}
    /\ tx.device # "DEBT_BORROWED"

\* a transaction compute_outstanding_debt treats as a credit-card item
CardItem(tx) ==
    /\ tx.tx_type = "expense"
    /\ Upper(tx.device) # "DEBT_BORROWED"
    /\ ~Contains(Lower(tx.category), "debt cleared")
    /\ is_credit_card(Upper(tx.device), Lower(tx.description), Lower(tx.category))
PaymentLike(tx) == CardItem(tx) /\ is_payment(Lower(tx.description))
ExpenseLike(tx) == CardItem(tx) /\ ~is_payment(Lower(tx.description))

DateBefore(a, b) ==
    \/ a[1] < b[1]
    \/ a[1] = b[1] /\ a[2] < b[2]
    \/ a[1] = b[1] /\ a[2] = b[2] /\ a[3] < b[3]

\* C1: appending the pair returned by create_credit_card_expense(a, ...) leaves
\* compute_balance unchanged and raises credit_card_debt by exactly
\* normalize_amount(a), for any ledger
C1_PairRaisesDebtByAmount ==
    op.call.f = "cc_expense" =>
        /\ \A b \in Balances : compute_balance(ledger, b) = compute_balance(Before, b)
        /\ CreditCardDebt(ledger) = CreditCardDebt(Before) + normalize_amount(op.call.amount)

\* C2: appending the transaction returned by create_credit_card_payment(a, ...)
\* lowers credit_card_debt from D to max(0, D - a) and compute_balance by a,
\* whatever description, category and device it was created with
C2_PaymentLowersDebtAndBalance ==
    op.call.f = "cc_payment" =>
        /\ CreditCardDebt(ledger)
             = Max(0, CreditCardDebt(Before) - normalize_amount(op.call.amount))
        /\ \A b \in Balances :
             compute_balance(ledger, b)
               = compute_balance(Before, b) - normalize_amount(op.call.amount)

Get(f, name) == IF name \in DOMAIN f THEN f[name] ELSE 0        \* dict.get(name, 0.0)
Put(f, name, value) == (name :> value) @@ f                      \* dict[name] = value

RECURSIVE SumValues(_, _)
SumValues(f, names) ==
    IF names = {} THEN 0
    ELSE LET n == CHOOSE n \in names : TRUE
         IN  f[n] + SumValues(f, names \ {n})

\* first loop: the explicit allocations after the splits i.. (cents per name)
RECURSIVE ExplicitAllocations(_, _, _)
ExplicitAllocations(splits, i, acc) ==
    IF i > Len(splits) THEN acc
    ELSE LET name == Strip(splits[i].name)
             amount_raw == splits[i].amount
         IN  IF name = "" \/ amount_raw = None
             THEN ExplicitAllocations(splits, i + 1, acc)
             ELSE ExplicitAllocations(splits, i + 1,
                      Put(acc, name, Get(acc, name) + RoundMills(Abs(amount_raw[1]))))

\* first loop: the names listed without an amount, in order
RECURSIVE UnspecifiedParticipants(_, _)
UnspecifiedParticipants(splits, i) ==
    IF i > Len(splits) THEN <<>>
    ELSE LET name == Strip(splits[i].name)
         IN  IF name # "" /\ splits[i].amount = None
             THEN <<name>> \o UnspecifiedParticipants(splits, i + 1)
             ELSE UnspecifiedParticipants(splits, i + 1)

\* remaining = max(round(total_amount - specified_total, 2), 0.0)
Remaining(total_amount, specified_total) == Max(total_amount - specified_total, 0)

\* the last participant takes the rest, not floored at zero
LastShare_NoFloor(remaining, distributed, base_share) == remaining - distributed

\* share of the last unspecified participant
LastShare(remaining, distributed, base_share) == Max(remaining - distributed, 0)

\* second loop: the unspecified participants idx.. each get round(base_share, 2),
\* the last one the rest
RECURSIVE Distribute(_, _, _, _, _)
Distribute(unspecified, idx, remaining, distributed, allocations) ==
    IF idx > Len(unspecified) THEN allocations
    ELSE LET count == Len(unspecified)
             base_share == IF remaining > 0 THEN RoundShare(remaining, count) ELSE 0
             name == unspecified[idx]
         IN  IF idx = count
             THEN Put(allocations, name,
                      Get(allocations, name) + LastShare(remaining, distributed, base_share))
             ELSE Distribute(unspecified, idx + 1, remaining, distributed + base_share,
                      Put(allocations, name, Get(allocations, name) + base_share))

\* returns the dict name -> share (cents)
compute_shared_allocations(tx) ==
    IF ~tx.shared_flag \/ tx.shared_splits = <<>> THEN <<>>
    ELSE LET total_amount == normalize_amount(AsRaw(tx.amount))
             explicit_allocations == ExplicitAllocations(tx.shared_splits, 1, <<>>)
             unspecified_participants == UnspecifiedParticipants(tx.shared_splits, 1)
             specified_total == SumValues(explicit_allocations, DOMAIN explicit_allocations)
             remaining == Remaining(total_amount, specified_total)
         IN  Distribute(unspecified_participants, 1, remaining, 0, explicit_allocations)

(***************************************************************************)
(* Allocator specification: one shared transaction, then its allocation    *)
(***************************************************************************)
ParticipantNames == {"ann", "bob", "cy", "dee "}
SplitAmounts == {None, Some(-1004)}                       \* raw amounts, mills
SplitValues == [name : ParticipantNames, amount : SplitAmounts]
SplitSeqs == UNION { [1..k -> SplitValues] : k \in 0..MaxSplits }
SharedTotals == {20, 1004, -10000}                        \* raw amounts, mills

InitAlloc ==
    /\ \E total \in SharedTotals, splits \in SplitSeqs :
          ledger = << create_expense_transaction(1, 1, total, Date1, "dinner", "Food",
                          "upi", DEFAULT_SUB_TYPE, TRUE, TRUE, splits, "") >>
    /\ drawn = 1
    /\ now = 2
    /\ op = NoOp
    /\ result = NoResult
    /\ rows = <<>>
    /\ pending = <<>>
    /\ last = NoLast
    /\ settings = NoSettings
    /\ today = Date1

Allocate ==
    /\ result.kind = "none"
    /\ result' = [kind |-> "allocations", value |-> compute_shared_allocations(ledger[1])]
    /\ UNCHANGED <<ledger, op, rows, pending, last, settings, today, drawn, now>>

NextAlloc == Allocate

SpecAlloc == InitAlloc /\ [][NextAlloc]_vars

(***************************************************************************)
(* Claims about the allocator                                              *)
(***************************************************************************)
SharedTx == ledger[1]
Allocations == result.value

\* names listed with / without an amount in tx.shared_splits
ExplicitNames(tx) ==
    {Strip(tx.shared_splits[i].name) : i \in {j \in DOMAIN tx.shared_splits : tx.shared_splits[j].amount # None}}
UnspecifiedNames(tx) ==
    {Strip(tx.shared_splits[i].name) : i \in {j \in DOMAIN tx.shared_splits : tx.shared_splits[j].amount = None}}

RECURSIVE SumStated(_, _)
SumStated(splits, idx) ==
    IF idx = {} THEN 0
    ELSE LET i == CHOOSE i \in idx : TRUE
         IN  RoundMills(Abs(splits[i].amount[1])) + SumStated(splits, idx \ {i})

\* the stated (absolute, 2-decimal) amounts of one name, and of all names
StatedFor(tx, name) ==
    SumStated(tx.shared_splits, {i \in DOMAIN tx.shared_splits :
        tx.shared_splits[i].amount # None /\ Strip(tx.shared_splits[i].name) = name})
StatedTotal(tx) ==
    SumStated(tx.shared_splits, {i \in DOMAIN tx.shared_splits : tx.shared_splits[i].amount # None})

\* C5: when all k >= 1 (distinct) participants have no explicit amount, the
\* shares sum to exactly the transaction total A, for every A >= 0.01 and every k
C5_SharesSumToTotal ==
    (/\ result.kind = "allocations"
     /\ SharedTx.shared_splits # <<>>
     /\ ExplicitNames(SharedTx) = {}
     /\ Cardinality(UnspecifiedNames(SharedTx)) = Len(SharedTx.shared_splits)
     /\ SharedTx.amount >= 1)
    => SumValues(Allocations, DOMAIN Allocations) = SharedTx.amount

\* C6 as stated: no share is negative, every explicitly-specified participant
\* gets exactly the sum of their stated amounts, and every unspecified
\* participant gets 0 when the explicit amounts reach the total
C6_ExplicitExactUnspecifiedZero ==
    result.kind = "allocations" =>
        /\ \A n \in DOMAIN Allocations : Allocations[n] >= 0
        /\ \A n \in ExplicitNames(SharedTx) : Allocations[n] = StatedFor(SharedTx, n)
        /\ StatedTotal(SharedTx) >= SharedTx.amount
             => \A n \in UnspecifiedNames(SharedTx) : Allocations[n] = 0

\* C6 amended: the same, for the participants listed only with amounts and the
\* participants listed only without one; a name listed both ways gets the sum
\* of its stated amounts plus its distributed share
C6_ExplicitOnlyExactUnspecifiedOnlyZero ==
    result.kind = "allocations" =>
        /\ \A n \in DOMAIN Allocations : Allocations[n] >= 0
        /\ \A n \in ExplicitNames(SharedTx) \ UnspecifiedNames(SharedTx) :
              Allocations[n] = StatedFor(SharedTx, n)
        /\ StatedTotal(SharedTx) >= SharedTx.amount
             => \A n \in UnspecifiedNames(SharedTx) \ ExplicitNames(SharedTx) :
                   Allocations[n] = 0
        /\ \A n \in ExplicitNames(SharedTx) \cap UnspecifiedNames(SharedTx) :
              Allocations[n] >= StatedFor(SharedTx, n)

\* a name stated twice has accumulated both amounts, they exceed the total, and
\* a participant without an amount got 0
C6_Witness ==
    /\ result.kind = "allocations"
    /\ \E n \in ExplicitNames(SharedTx) \ UnspecifiedNames(SharedTx) :
          /\ Cardinality({i \in DOMAIN SharedTx.shared_splits :
                 Strip(SharedTx.shared_splits[i].name) = n}) = 2
          /\ Allocations[n] = StatedFor(SharedTx, n)
          /\ Allocations[n] > SharedTx.amount
    /\ \E m \in UnspecifiedNames(SharedTx) \ ExplicitNames(SharedTx) : Allocations[m] = 0

(***************************************************************************)
(* summarize_shared_expenses                                               *)
(***************************************************************************)
\* a filter argument (None or a string) as its key: stripped, lower-cased,
\* None when absent or blank
FilterKey(filter) ==
    IF filter # None /\ Strip(filter[1]) # "" THEN Some(Lower(Strip(filter[1]))) ELSE None

\* the sign summarize_shared_expenses gives a transaction's allocations
SharedSign(tx) ==
    IF tx.device = "DEBT_BORROWED" THEN -1 ELSE (IF tx.tx_type = "expense" THEN 1 ELSE -1)

\* summary[name] = round(summary.get(name, 0.0) + sign * amount, 2), for each
\* name of filtered_allocations
RECURSIVE AddToSummary(_, _, _, _)
AddToSummary(summary, filtered_allocations, names, sign) ==
    IF names = {} THEN summary
    ELSE LET name == CHOOSE n \in names : TRUE
         IN  AddToSummary(Put(summary, name, Get(summary, name) + sign * filtered_allocations[name]),
                          filtered_allocations, names \ {name}, sign)

\* one iteration of the loop; st holds summary and details.  name_map is
\* keyed by lower-cased name: the names of one transaction are assumed to
\* differ in more than case.
SummaryStep(st, tx, participant_key, category_key) ==
    IF ~tx.shared_flag THEN st
    ELSE IF tx.tx_type \notin {"expense", "income"} THEN st
    ELSE IF category_key # None /\ Lower(Strip(tx.category)) # category_key[1] THEN st
    ELSE
      LET allocations == compute_shared_allocations(tx)
          sign == SharedSign(tx)
      IN  IF DOMAIN allocations = {} THEN st
          ELSE IF participant_key # None /\ ~\E name \in DOMAIN allocations : Lower(name) = participant_key[1]
            THEN st
          ELSE
            LET shown == IF participant_key # None
                         THEN {CHOOSE name \in DOMAIN allocations : Lower(name) = participant_key[1]}
                         ELSE DOMAIN allocations
            IN  [ summary |-> AddToSummary(st.summary, allocations, shown, sign),
                  details |-> Append(st.details, <<tx, allocations>>) ]

RECURSIVE SummaryPass(_, _, _, _, _)
SummaryPass(transactions, i, st, participant_key, category_key) ==
    IF i > Len(transactions) THEN st
    ELSE SummaryPass(transactions, i + 1,
                     SummaryStep(st, transactions[i], participant_key, category_key),
                     participant_key, category_key)

\* the summary returned as it was accumulated
CleanedSummary_KeepAll(summary) == summary

\* drop near-zero entries: keep abs(value) >= 0.005
CleanedSummary(summary) ==
    [name \in {n \in DOMAIN summary : Abs(summary[n]) * 10 >= 5} |-> summary[name]]

\* returns [summary, details]
summarize_shared_expenses(transactions, participant_filter, category_filter) ==
    LET st == SummaryPass(transactions, 1, [summary |-> <<>>, details |-> <<>>],
                          FilterKey(participant_filter), FilterKey(category_filter))
    IN  [summary |-> CleanedSummary(st.summary), details |-> st.details]

(***************************************************************************)
(* Shared-summary specification: a ledger of shared expenses and incomes,  *)
(* then one summary                                                        *)
(***************************************************************************)
SharedSplitChoices ==
    { <<>>,
      << [name |-> "ann", amount |-> None] >>,
      << [name |-> "ann", amount |-> None], [name |-> "bob", amount |-> None] >>,
      << [name |-> "ann", amount |-> Some(1000)], [name |-> "bob", amount |-> None] >> }
SharedCalls ==
    [f : {"expense", "income"}, device : {"upi", "DEBT_BORROWED"},
     category : {"Food", "Trip"}, splits : SharedSplitChoices]
SharedCallSeqs == UNION { [1..k -> SharedCalls] : k \in 0..MaxShared }
ParticipantFilters == {None, Some(" Ann"), Some("bob")}
CategoryFilters == {None, Some("food ")}

SharedTxOf(c, n) ==
    IF c.f = "expense"
    THEN create_expense_transaction(n, n, 3000, Date1, "dinner", c.category, c.device, DEFAULT_SUB_TYPE, TRUE, TRUE, c.splits, "")
    ELSE create_income_transaction(n, n, 3000, Date1, "refund", c.category, c.device, DEFAULT_SUB_TYPE, TRUE, TRUE, c.splits, "")

InitShared ==
    /\ \E calls \in SharedCallSeqs :
          /\ ledger = [i \in 1..Len(calls) |-> SharedTxOf(calls[i], i)]
          /\ drawn = Len(calls)
          /\ now = Len(calls) + 1
    /\ op = NoOp
    /\ result = NoResult
    /\ rows = <<>>
    /\ pending = <<>>
    /\ last = NoLast
    /\ settings = NoSettings
    /\ today = Date1

Summarize ==
    /\ result.kind = "none"
    /\ \E pf \in ParticipantFilters, cf \in CategoryFilters :
          LET r == summarize_shared_expenses(ledger, pf, cf)
          IN  result' = [kind |-> "summary", summary |-> r.summary, details |-> r.details,
                         participant_filter |-> pf, category_filter |-> cf]
    /\ UNCHANGED <<ledger, op, rows, pending, last, settings, today, drawn, now>>

NextShared == Summarize

SpecShared == InitShared /\ [][NextShared]_vars

(***************************************************************************)
(* Claims about the shared summary                                         *)
(***************************************************************************)
\* a transaction that gets through the filters of summarize_shared_expenses
PassesFilters(tx, participant_filter, category_filter) ==
    /\ tx.shared_flag
    /\ tx.tx_type \in {"expense", "income"}
    /\ FilterKey(category_filter) # None => Lower(Strip(tx.category)) = FilterKey(category_filter)[1]
    /\ DOMAIN compute_shared_allocations(tx) # {}
    /\ FilterKey(participant_filter) # None =>
          \E name \in DOMAIN compute_shared_allocations(tx) : Lower(name) = FilterKey(participant_filter)[1]

\* the sign rule of the claim: +1 for an expense, -1 for an income, and the
\* opposite of that when the device is DEBT_BORROWED
ClaimedSign(tx) ==
    (IF tx.tx_type = "expense" THEN 1 ELSE -1) * (IF tx.device = "DEBT_BORROWED" THEN -1 ELSE 1)

RECURSIVE ClaimedNet(_, _, _)
ClaimedNet(T, idx, name) ==
    IF idx = {} THEN 0
    ELSE LET i == CHOOSE i \in idx : TRUE
         IN  ClaimedSign(T[i]) * Get(compute_shared_allocations(T[i]), name)
               + ClaimedNet(T, idx \ {i}, name)

\* C7: with no participant filter, each participant's total is the sum of their
\* allocations, added for a shared expense and subtracted for a shared income,
\* and the opposite of that for both types when the device is DEBT_BORROWED
C7_DebtBorrowedInvertsSign ==
    (result.kind = "summary" /\ result.participant_filter = None) =>
        \A name \in {"ann", "bob"} :
            Get(result.summary, name)
              = ClaimedNet(ledger, {i \in DOMAIN ledger :
                    PassesFilters(ledger[i], None, result.category_filter)}, name)

\* C8: the summary holds no participant within 0.005 of zero, and the details
\* hold one entry, in order, for every transaction that passed the filters
C8_SettledDroppedDetailsKept ==
    result.kind = "summary" =>
        /\ \A name \in DOMAIN result.summary : Abs(result.summary[name]) * 10 >= 5
        /\ [i \in DOMAIN result.details |-> result.details[i][1]]
             = SelectSeq(ledger, LAMBDA tx :
                   PassesFilters(tx, result.participant_filter, result.category_filter))
        /\ \A i \in DOMAIN result.details :
              result.details[i][2] = compute_shared_allocations(result.details[i][1])

\* ann's share of an expense was repaid by a shared income: ann is gone from
\* the summary, both transactions are in the details
C8_Witness ==
    /\ result.kind = "summary"
    /\ result.participant_filter = None
    /\ result.category_filter = None
    /\ Len(result.details) = 2
    /\ result.details[1][1].tx_type = "expense"
    /\ result.details[2][1].tx_type = "income"
    /\ result.details[1][1].device = "UPI"
    /\ result.details[2][1].device = "UPI"
    /\ result.details[1][2]["ann"] > 0
    /\ result.details[1][2]["ann"] = result.details[2][2]["ann"]
    /\ "ann" \notin DOMAIN result.summary

(***************************************************************************)
(* Row codec (logic.py): a CSV row is a record of strings                  *)
(***************************************************************************)
DigitChars == "0123456789"
DigitTable == [c \in {Char(DigitChars, i) : i \in 1..10} |->
                 CHOOSE i \in 0..9 : Char(DigitChars, i + 1) = c]
IsDigits(s) == Len(s) > 0 /\ \A i \in 1..Len(s) : Char(s, i) \in DOMAIN DigitTable

RECURSIVE ParseNat(_)
ParseNat(s) ==
    IF Len(s) = 0 THEN 0
    ELSE 10 * ParseNat(SubSeq(s, 1, Len(s) - 1)) + DigitTable[Char(s, Len(s))]

Pad2(n) == IF n < 10 THEN "0" \o ToString(n) ELSE ToString(n)
Pad4(n) == IF n < 10 THEN "000" \o ToString(n)
           ELSE IF n < 100 THEN "00" \o ToString(n)
           ELSE IF n < 1000 THEN "0" \o ToString(n) ELSE ToString(n)

StartsWith(s, prefix) == Len(s) >= Len(prefix) /\ SubSeq(s, 1, Len(prefix)) = prefix
After(s, k) == SubSeq(s, k + 1, Len(s))
\* position of the first occurrence of part in s, 0 when there is none
IndexOf(s, part) ==
    LET hits == {i \in 1..(Len(s) - Len(part) + 1) : SubSeq(s, i, i + Len(part) - 1) = part}
    IN  IF hits = {} THEN 0 ELSE CHOOSE i \in hits : \A j \in hits : i <= j

\* date.isoformat() and strftime("%Y-%m-%d")
isoformat(d) == Pad4(d[1]) \o "-" \o Pad2(d[2]) \o "-" \o Pad2(d[3])

DaysInMonth(y, m) ==
    IF m \in {4, 6, 9, 11} THEN 30
    ELSE IF m = 2 THEN (IF y % 4 = 0 /\ (y % 100 # 0 \/ y % 400 = 0) THEN 29 ELSE 28)
    ELSE 31

\* date.fromisoformat(text): Some(date), or None for a ValueError
fromisoformat(text) ==
    IF /\ Len(text) = 10
       /\ Char(text, 5) = "-" /\ Char(text, 8) = "-"
       /\ IsDigits(SubSeq(text, 1, 4)) /\ IsDigits(SubSeq(text, 6, 7)) /\ IsDigits(SubSeq(text, 9, 10))
    THEN LET y == ParseNat(SubSeq(text, 1, 4))
             m == ParseNat(SubSeq(text, 6, 7))
             d == ParseNat(SubSeq(text, 9, 10))
         IN  IF y >= 1 /\ m \in 1..12 /\ d >= 1 /\ d <= DaysInMonth(y, m)
             THEN Some(<<y, m, d>>) ELSE None
    ELSE None

\* datetime.isoformat() of the clock value ts, and its parse
TimestampPrefix == "2025-01-01T00:00:"
timestamp_isoformat(ts) == TimestampPrefix \o Pad2(ts)
timestamp_fromisoformat(text) ==
    IF StartsWith(text, TimestampPrefix) /\ Len(text) = Len(TimestampPrefix) + 2
       /\ IsDigits(After(text, Len(TimestampPrefix)))
    THEN Some(ParseNat(After(text, Len(TimestampPrefix)))) ELSE None

\* f"{x:.2f}" of a 2-decimal float (cents)
FormatAmount(cents) ==
    (IF cents < 0 THEN "-" ELSE "") \o ToString(Abs(cents) \div 100) \o "." \o Pad2(Abs(cents) % 100)

\* f"{amount:.2f}" of a raw float (mills): rounds to 2 decimals, keeps the sign
FormatRawAmount(mills) ==
    (IF mills < 0 THEN "-" ELSE "") \o FormatAmount(RoundMills(Abs(mills)))

\* whole "." frac as cents, with the sign; None when they are not digits
DecimalValue(negative, whole, frac) ==
    IF IsDigits(whole) /\ (frac = "" \/ IsDigits(frac)) /\ Len(frac) <= 2
    THEN Some((IF negative THEN -1 ELSE 1)
                * (100 * ParseNat(whole)
                     + (IF Len(frac) = 1 THEN 10 * ParseNat(frac) ELSE ParseNat(frac))))
    ELSE None

SplitDecimal(negative, digits, dot) ==
    IF dot = 0 THEN DecimalValue(negative, digits, "")
    ELSE DecimalValue(negative, SubSeq(digits, 1, dot - 1), After(digits, dot))

\* float(text): Some(cents), or None for a ValueError.  Decides the texts the
\* program writes into the amount column ([-]digits[.digits], at most two
\* decimals) and takes every other text as a ValueError.
ParseFloat(text) ==
    IF StartsWith(text, "-")
    THEN SplitDecimal(TRUE, After(text, 1), IndexOf(After(text, 1), "."))
    ELSE SplitDecimal(FALSE, text, IndexOf(text, "."))

\* repr() of a 2-decimal float, as json.dumps writes it
FloatRepr(cents) ==
    (IF cents < 0 THEN "-" ELSE "") \o ToString(Abs(cents) \div 100) \o "."
       \o (IF Abs(cents) % 10 = 0 THEN ToString((Abs(cents) % 100) \div 10)
           ELSE Pad2(Abs(cents) % 100))

\* json.dumps({"name": ..., "amount": ...}); names hold no character that
\* json escapes
ItemHead == "{\"name\": \""
ItemMid == "\", \"amount\": "
JsonItem(split) ==
    ItemHead \o split.name \o ItemMid
       \o (IF split.amount = None THEN "null" ELSE FloatRepr(split.amount[1])) \o "}"

RECURSIVE JsonItems(_)
JsonItems(splits) ==
    IF Len(splits) = 1 THEN JsonItem(splits[1])
    ELSE JsonItem(splits[1]) \o ", " \o JsonItems(Tail(splits))

_serialize_shared_splits(splits) ==
    IF splits = <<>> THEN "" ELSE "[" \o JsonItems(splits) \o "]"

\* the items of a JSON array of {"name", "amount"} objects, text after "[":
\* [ok, items]
NoItems == [ok |-> FALSE, items |-> <<>>]
RECURSIVE ParseJsonItems(_)

ItemThenMore(item, more) == [ok |-> more.ok, items |-> <<item>> \o more.items]

ParseItemTail(name, amount_text, amount, tail) ==
    IF amount_text # "null" /\ amount = None THEN NoItems
    ELSE IF tail = "]" THEN [ok |-> TRUE, items |-> <<[name |-> name, amount |-> amount]>>]
    ELSE IF ~StartsWith(tail, ", ") THEN NoItems
    ELSE ItemThenMore([name |-> name, amount |-> amount], ParseJsonItems(After(tail, 2)))

ParseItemAmount(name, rest, close) ==
    IF close = 0 THEN NoItems
    ELSE ParseItemTail(name, SubSeq(rest, 1, close - 1),
                       IF SubSeq(rest, 1, close - 1) = "null" THEN None
                       ELSE ParseFloat(SubSeq(rest, 1, close - 1)),
                       After(rest, close))

ParseItemName(rest, q) ==
    IF q = 0 THEN NoItems
    ELSE ParseItemAmount(SubSeq(rest, 1, q - 1), After(rest, q - 1 + Len(ItemMid)),
                         IndexOf(After(rest, q - 1 + Len(ItemMid)), "}"))

ParseJsonItems(text) ==
    IF ~StartsWith(text, ItemHead) THEN NoItems
    ELSE ParseItemName(After(text, Len(ItemHead)), IndexOf(After(text, Len(ItemHead)), ItemMid))

ListOrError(parsed) ==
    IF parsed.ok THEN [kind |-> "list", items |-> parsed.items]
    ELSE [kind |-> "error", items |-> <<>>]

\* json.loads(raw), as far as _deserialize_shared_splits tells results apart:
\* "list" (an array of name/amount objects), "scalar" (a number, true, false
\* or null: not iterable), "empty" ([] or {}), "error" (JSONDecodeError).
\* Decides the arrays _serialize_shared_splits writes, JSON scalars and text
\* that is no JSON at all.
json_loads(raw) ==
    IF raw \in {"null", "true", "false"} THEN [kind |-> "scalar", items |-> <<>>]
    ELSE IF ParseFloat(raw) # None /\ ~(Len(raw) > 1 /\ Char(raw, 1) = "0" /\ Char(raw, 2) # ".")
      THEN [kind |-> "scalar", items |-> <<>>]
    ELSE IF raw \in {"[]", "{}"} THEN [kind |-> "empty", items |-> <<>>]
    ELSE IF StartsWith(raw, "[") THEN ListOrError(ParseJsonItems(After(raw, 1)))
    ELSE [kind |-> "error", items |-> <<>>]

\* `for item in data' over a number, a bool or None raises TypeError, which
\* _deserialize_shared_splits does not catch
DeserializeRaises(raw) == raw # "" /\ json_loads(raw).kind = "scalar"

RECURSIVE KeptSplits(_)
KeptSplits(items) ==
    IF items = <<>> THEN <<>>
    ELSE LET name_raw == Strip(items[1].name)
         IN  IF name_raw = "" THEN KeptSplits(Tail(items))
             ELSE <<[name |-> name_raw, amount |-> items[1].amount]>> \o KeptSplits(Tail(items))

SplitsOf(data) == IF data.kind # "list" THEN <<>> ELSE KeptSplits(data.items)

_deserialize_shared_splits(raw) ==
    IF raw = "" THEN <<>> ELSE SplitsOf(json_loads(raw))

CSV_COLUMNS ==
    {"id", "timestamp", "tx_type", "sub_type", "amount", "date", "description",
     "category", "device", "location", "occasion", "effects_balance",
     "linked_tx_id", "shared_flag", "shared_splits", "shared_notes"}

transaction_to_row(tx) ==
    [ id |-> tx.id,
      timestamp |-> timestamp_isoformat(tx.timestamp),
      tx_type |-> tx.tx_type,
      sub_type |-> tx.sub_type,
      amount |-> FormatAmount(tx.amount),
      date |-> isoformat(tx.date),
      description |-> tx.description,
      category |-> tx.category,
      device |-> tx.device,
      location |-> tx.location,
      occasion |-> tx.occasion,
      effects_balance |-> IF tx.effects_balance THEN "True" ELSE "False",
      linked_tx_id |-> tx.linked_tx_id,
      shared_flag |-> IF tx.shared_flag /\ tx.shared_splits # <<>> THEN "True" ELSE "False",
      shared_splits |-> _serialize_shared_splits(tx.shared_splits),
      shared_notes |-> tx.shared_notes ]

\* transaction_from_row raises (TypeError out of _deserialize_shared_splits)
transaction_from_row_raises(row) == DeserializeRaises(row.shared_splits)

\* the parsed value, or the fallback of the except branch
OrElse(parsed, fallback) == IF parsed = None THEN fallback ELSE parsed[1]

RowTransaction(row, clock, today_value, shared_splits) ==
    [ id |-> row.id,
      timestamp |-> OrElse(timestamp_fromisoformat(row.timestamp), clock),
      tx_type |-> row.tx_type,
      sub_type |-> row.sub_type,
      amount |-> OrElse(ParseFloat(row.amount), 0),
      date |-> OrElse(fromisoformat(row.date), today_value),
      description |-> row.description,
      category |-> row.category,
      device |-> row.device,
      location |-> row.location,
      occasion |-> row.occasion,
      effects_balance |-> Lower(row.effects_balance) \in {"true", "1", "yes"},
      linked_tx_id |-> row.linked_tx_id,
      shared_flag |-> Lower(row.shared_flag) \in {"true", "1", "yes"} /\ shared_splits # <<>>,
      shared_splits |-> shared_splits,
      shared_notes |-> row.shared_notes ]

\* clock and today_value stand for datetime.utcnow() and date.today()
transaction_from_row(row, clock, today_value) ==
    RowTransaction(row, clock, today_value, _deserialize_shared_splits(row.shared_splits))

\* validate_transaction stopping at the first rule that fails
validation_errors_FirstOnly(tx) ==
    IF tx.tx_type \notin ALLOWED_TX_TYPES
    THEN <<"Unsupported transaction type: " \o tx.tx_type>>
    ELSE IF tx.device # "" /\ tx.device \notin ALLOWED_DEVICES
    THEN <<"Unsupported device: " \o tx.device>>
    ELSE IF tx.amount <= 0 THEN <<"Amount must be greater than zero">>
    ELSE <<>>

\* validate_transaction: the list of errors; a date object always has a valid
\* isoformat, so the date check adds none
validation_errors(tx) ==
    (IF tx.tx_type \notin ALLOWED_TX_TYPES
     THEN <<"Unsupported transaction type: " \o tx.tx_type>> ELSE <<>>)
      \o (IF tx.device # "" /\ tx.device \notin ALLOWED_DEVICES
          THEN <<"Unsupported device: " \o tx.device>> ELSE <<>>)
      \o (IF tx.amount <= 0 THEN <<"Amount must be greater than zero">> ELSE <<>>)

validate_transaction(tx) == validation_errors(tx) = <<>>

(***************************************************************************)
(* Storage (storage.py): the current user's transactions.csv is a sequence *)
(* of rows, replaced as a whole by every write                             *)
(***************************************************************************)
read_transactions(file) == file

\* every column written as str(row.get(column, ""))
write_transactions(transactions) ==
    [i \in 1..Len(transactions) |-> [column \in CSV_COLUMNS |-> transactions[i][column]]]

\* read, append, write: one replacement of the file
append_transaction(file, row) ==
    write_transactions(Append(read_transactions(file), row))

(***************************************************************************)
(* Dashboard (app.py): the monthly debt clearing run by refresh_metrics    *)
(***************************************************************************)
MonthAbbr == <<"Jan", "Feb", "Mar", "Apr", "May", "Jun", "Jul", "Aug", "Sep", "Oct", "Nov", "Dec">>
DateMin == <<1, 1, 1>>
DateLeq(a, b) == a = b \/ DateBefore(a, b)
PrevMonth(d) == IF d[2] = 1 THEN <<d[1] - 1, 12>> ELSE <<d[1], d[2] - 1>>

get_previous_billing_cycle(today_value) ==
    LET one == PrevMonth(today_value)
        two == PrevMonth(<<one[1], one[2], 1>>)
    IN  IF today_value[3] >= 19
        THEN << <<one[1], one[2], 19>>, <<today_value[1], today_value[2], 18>> >>
        ELSE << <<two[1], two[2], 19>>, <<one[1], one[2], 18>> >>

should_clear_debt(stored, today_value) ==
    IF today_value[3] # 19 THEN FALSE
    ELSE LET last_cleared_date == fromisoformat(stored.last_debt_cleared)
         IN  ~( /\ stored.last_debt_cleared # ""
                /\ last_cleared_date # None
                /\ last_cleared_date[1][1] = today_value[1]
                /\ last_cleared_date[1][2] = today_value[2] )

mark_debt_cleared_DayFirst(stored, today_value) ==
    [stored EXCEPT !.last_debt_cleared =
        Pad2(today_value[3]) \o "-" \o Pad2(today_value[2]) \o "-" \o Pad4(today_value[1])]

mark_debt_cleared(stored, today_value) ==
    [stored EXCEPT !.last_debt_cleared = isoformat(today_value)]

CLEARANCE_MARKERS == {"PAYMENT", "CLEARED", "RESET"}

\* one iteration of clear_outstanding_debt's loop.  tx_date is
\* getattr(tx, 'date_value', date.min): a Transaction has the attribute date,
\* and no attribute date_value
ClearanceStep(total_debt, tx, prev_start, prev_end) ==
    LET tx_date == DateMin
    IN  IF ~(DateLeq(prev_start, tx_date) /\ DateLeq(tx_date, prev_end)) THEN total_debt
        ELSE IF /\ tx.tx_type = "expense"
                /\ tx.device \in {"CREDIT_CARD", "CREDIT_CARD_UPI"}
                /\ ~AnyTermIn(CLEARANCE_MARKERS, Upper(tx.description))
          THEN total_debt + Abs(tx.amount)
        ELSE IF tx.tx_type = "income" /\ Contains(Upper(tx.description), "CREDIT CARD PAYMENT")
          THEN Max(0, total_debt - Abs(tx.amount))
        ELSE total_debt

RECURSIVE ClearancePass(_, _, _, _, _)
ClearancePass(transactions, i, total_debt, prev_start, prev_end) ==
    IF i > Len(transactions) THEN total_debt
    ELSE ClearancePass(transactions, i + 1,
                       ClearanceStep(total_debt, transactions[i], prev_start, prev_end),
                       prev_start, prev_end)

\* f"CREDIT CARD PAYMENT - {prev_start:%d %b} to {prev_end:%d %b %Y}"
PaymentDesc(prev_start, prev_end) ==
    "CREDIT CARD PAYMENT - " \o Pad2(prev_start[3]) \o " " \o MonthAbbr[prev_start[2]]
       \o " to " \o Pad2(prev_end[3]) \o " " \o MonthAbbr[prev_end[2]] \o " " \o Pad4(prev_end[1])

\* the file after the payment row and the clearance row were appended
ClearanceRows(file, total_debt, payment_desc, today_value, clock, n) ==
    append_transaction(
        append_transaction(file, transaction_to_row(
            create_income_transaction(n + 1, clock, AsRaw(total_debt), today_value,
                payment_desc, "Credit Card Payment", "BANK_TRANSFER",
                CREDIT_CARD_PAYMENT_SUB_TYPE, TRUE, FALSE, <<>>, ""))),
        transaction_to_row(
            create_expense_transaction(n + 2, clock, AsRaw(total_debt), today_value,
                "DEBT CLEARED - " \o payment_desc, DEBT_CLEARED_CATEGORY, "BANK_TRANSFER",
                CREDIT_CARD_PAYMENT_SUB_TYPE, TRUE, FALSE, <<>>, "")))

NotCleared(file, stored, n) ==
    [cleared |-> FALSE, rows |-> file, settings |-> stored, drawn |-> n]

ClearTotal(file, stored, today_value, clock, n, cycle, total_debt) ==
    IF total_debt <= 0 THEN NotCleared(file, stored, n)
    ELSE [ cleared |-> TRUE,
           rows |-> ClearanceRows(file, total_debt, PaymentDesc(cycle[1], cycle[2]),
                                  today_value, clock, n),
           settings |-> mark_debt_cleared(stored, today_value),
           drawn |-> n + 2 ]

ClearCycle(file, stored, today_value, clock, n, cycle) ==
    ClearTotal(file, stored, today_value, clock, n, cycle,
               ClearancePass([i \in DOMAIN file |-> transaction_from_row(file[i], clock, today_value)],
                             1, 0, cycle[1], cycle[2]))

\* returns [cleared, rows, settings, drawn]; the whole body runs in a try
\* that turns any exception into False
clear_outstanding_debt(file, stored, today_value, clock, n) ==
    IF \E i \in DOMAIN file : transaction_from_row_raises(file[i])
    THEN NotCleared(file, stored, n)
    ELSE ClearCycle(file, stored, today_value, clock, n, get_previous_billing_cycle(today_value))

\* refresh_metrics after clear_outstanding_debt returned c: mark_debt_cleared
AfterClear(c, today_value) ==
    [raised |-> FALSE, rows |-> c.rows,
     settings |-> mark_debt_cleared(c.settings, today_value), drawn |-> c.drawn]

\* what refresh_metrics leaves behind: [raised, rows, settings, drawn].  It
\* raises when a row cannot be read back, before anything is changed.
refresh_metrics(file, stored, today_value, clock, n) ==
    IF \E i \in DOMAIN file : transaction_from_row_raises(file[i])
    THEN [raised |-> TRUE, rows |-> file, settings |-> stored, drawn |-> n]
    ELSE IF should_clear_debt(stored, today_value)
    THEN AfterClear(clear_outstanding_debt(file, stored, today_value, clock, n), today_value)
    ELSE [raised |-> FALSE, rows |-> file, settings |-> stored, drawn |-> n]

(***************************************************************************)
(* Handlers (app.py) on the persisted ledger                               *)
(***************************************************************************)
\* app.py's own constant, compared with the lower-cased category
CREDIT_CARD_PAYMENT_CATEGORY_KEYS == {"CREDIT_CARD_PAYMENT"}

\* what submit_expense builds: [outcome, transactions, drawn].  The payment
\* branch unpacks the single Transaction of create_credit_card_payment into
\* two names, which raises TypeError.
BuildExpense(c, today_value, clock, n) ==
    LET txn_date == IF c.txn_date = None THEN today_value ELSE c.txn_date[1]
        cleaned_device == IF c.device # "" THEN Upper(Strip(c.device)) ELSE ""
        normalized_category == Lower(Strip(c.category))
        description == Lower(c.description)
        device == IF Contains(description, "upi") \/ cleaned_device = "CREDIT_CARD_UPI"
                  THEN "CREDIT_CARD_UPI" ELSE "CREDIT_CARD"
    IN  IF normalized_category \in CREDIT_CARD_PAYMENT_CATEGORY_KEYS
        THEN [outcome |-> "raised", transactions |-> <<>>, drawn |-> 1]
        ELSE IF \/ Contains(description, "credit card")
                \/ Contains(description, "creditcard")
                \/ cleaned_device \in CREDIT_CARD_DEVICES
        THEN [outcome |-> "built",
              transactions |-> create_credit_card_expense(n + 1, clock, c.amount, txn_date,
                                   c.description, c.category, device,
                                   c.shared_flag, c.shared_splits, c.shared_notes),
              drawn |-> 3]
        ELSE [outcome |-> "built",
              transactions |-> << create_expense_transaction(n + 1, clock, c.amount, txn_date,
                                   c.description, c.category, cleaned_device, DEFAULT_SUB_TYPE,
                                   TRUE, c.shared_flag, c.shared_splits, c.shared_notes) >>,
              drawn |-> 1]

\* the validation loop never reports a failure
Rejected_Never(transactions) == FALSE

\* the validation loop returns at the first transaction that fails
Rejected(transactions) ==
    \E i \in DOMAIN transactions : ~validate_transaction(transactions[i])

LastOf(handler, status, before, built) ==
    [handler |-> handler, status |-> status, before |-> before, built |-> built]

\* the same, with the transaction_id the handler was called with
WithId(l, transaction_id) == [transaction_id |-> transaction_id] @@ l

Today19 == <<2025, 1, 19>>
Today25 == <<2025, 1, 25>>
AppDays == {Today19, Today25}
ExpenseAmounts == {3000, 4}
ExpenseInputs ==
    [amount : ExpenseAmounts, description : {"lunch"}, category : {"Food"},
     device : {" upi", "credit_card"}, txn_date : {None},
     shared_flag : {FALSE}, shared_splits : {<<>>}, shared_notes : {""}]
    \cup
    [amount : ExpenseAmounts, description : {"UPI CreditCard fee"}, category : {"Food"},
     device : {"cash"}, txn_date : {None},
     shared_flag : {TRUE}, shared_splits : {<<[name |-> "ann", amount |-> Some(150)]>>},
     shared_notes : {"split"}]
    \cup
    [amount : {3000}, description : {"lunch"}, category : {"Credit Card"},
     device : {"upi"}, txn_date : {None},
     shared_flag : {FALSE}, shared_splits : {<<>>}, shared_notes : {""}]
IncomeInputs ==
    [amount : ExpenseAmounts, description : {"salary"}, category : {"Salary"},
     device : {"bank_transfer"}, txn_date : {Some(Date2)},
     shared_flag : {FALSE}, shared_splits : {<<>>}, shared_notes : {""}]
EditInputs ==
    { [amount |-> -5000, description |-> "edited", category |-> "Food", device |-> "CASH",
       txn_date |-> Date1, shared_flag |-> FALSE, shared_participants |-> "", shared_notes |-> ""],
      [amount |-> 3000, description |-> "edited", category |-> "Food", device |-> "CASH",
       txn_date |-> Date1, shared_flag |-> TRUE, shared_participants |-> "7", shared_notes |-> ""] }
RowIds(file) == {file[i].id : i \in DOMAIN file}

InitApp ==
    /\ ledger = <<>>
    /\ op = NoOp
    /\ result = NoResult
    /\ rows = <<>>
    /\ pending = <<>>
    /\ last = LastOf("none", "none", <<>>, <<>>)
    /\ settings = NoSettings
    /\ today \in AppDays
    /\ drawn = 0
    /\ now = 1

\* submit_expense up to ensure_data_dir(): build, validate
SubmitExpense ==
    /\ pending = <<>>
    /\ \E c \in ExpenseInputs :
       \E b \in {BuildExpense(c, today, now, drawn)} :
          IF b.outcome = "raised"
          THEN /\ last' = LastOf("submit_expense", "raised", rows, <<>>)
               /\ UNCHANGED <<pending, drawn, now>>
          ELSE IF Rejected(b.transactions)
          THEN /\ last' = LastOf("submit_expense", "rejected", rows, b.transactions)
               /\ UNCHANGED <<pending, drawn, now>>
          ELSE /\ Len(rows) + Len(b.transactions) <= MaxRows
               /\ drawn + b.drawn <= MaxDrawn
               /\ now < MaxClock
               /\ pending' = [i \in DOMAIN b.transactions |-> transaction_to_row(b.transactions[i])]
               /\ last' = LastOf("submit_expense", "appending", rows, b.transactions)
               /\ drawn' = drawn + b.drawn
               /\ now' = now + 1
    /\ UNCHANGED <<ledger, op, result, rows, settings, today>>

\* one append_transaction of submit_expense's second loop; after the last
\* one the handler goes on to refresh_metrics
AppendPending ==
    /\ pending # <<>>
    /\ \E file \in {append_transaction(rows, Head(pending))} :
          IF Tail(pending) = <<>>
          THEN \E r \in {refresh_metrics(file, settings, today, now, drawn)} :
                /\ rows' = r.rows
                /\ settings' = r.settings
                /\ drawn' = r.drawn
                /\ last' = [last EXCEPT !.status = IF r.raised THEN "raised" ELSE "done"]
          ELSE /\ rows' = file
               /\ UNCHANGED <<settings, drawn, last>>
    /\ pending' = Tail(pending)
    /\ UNCHANGED <<ledger, op, result, today, now>>

\* the process dies, or append_transaction raises, between two writes
Crash ==
    /\ pending # <<>>
    /\ pending' = <<>>
    /\ last' = [last EXCEPT !.status = "crashed"]
    /\ UNCHANGED <<ledger, op, result, rows, settings, today, drawn, now>>

\* create_income_transaction with the arguments of submit_income
BuildIncome(c, today_value, clock, n) ==
    create_income_transaction(n + 1, clock, c.amount,
        IF c.txn_date = None THEN today_value ELSE c.txn_date[1],
        c.description, c.category, c.device, DEFAULT_SUB_TYPE, TRUE,
        c.shared_flag, c.shared_splits, c.shared_notes)

\* submit_income: build, validate, one append, refresh_metrics
SubmitIncome ==
    /\ pending = <<>>
    /\ \E c \in IncomeInputs :
       \E transaction \in {BuildIncome(c, today, now, drawn)} :
          IF Rejected(<<transaction>>)
          THEN /\ last' = LastOf("submit_income", "rejected", rows, <<transaction>>)
               /\ UNCHANGED <<rows, settings, drawn, now>>
          ELSE /\ Len(rows) + 1 <= MaxRows
               /\ drawn + 1 <= MaxDrawn
               /\ now < MaxClock
               /\ \E r \in {refresh_metrics(append_transaction(rows, transaction_to_row(transaction)),
                                            settings, today, now, drawn + 1)} :
                     /\ rows' = r.rows
                     /\ settings' = r.settings
                     /\ drawn' = r.drawn
                     /\ last' = LastOf("submit_income", IF r.raised THEN "raised" ELSE "done",
                                       rows, <<transaction>>)
               /\ now' = now + 1
    /\ UNCHANGED <<ledger, op, result, pending, today>>

\* delete_transaction: drop the rows with this id, one write, then the
\* dashboard's refresh_metrics; any exception is caught and reported
DeleteTransaction ==
    /\ pending = <<>>
    /\ \E transaction_id \in RowIds(rows) \cup {"id0"} :
       \E updated_rows \in {SelectSeq(read_transactions(rows), LAMBDA row : row.id # transaction_id)} :
          IF Len(updated_rows) = Len(rows)
          THEN /\ last' = WithId(LastOf("delete_transaction", "not_found", rows, <<>>), transaction_id)
               /\ UNCHANGED <<rows, settings, drawn>>
          ELSE \E r \in {refresh_metrics(write_transactions(updated_rows), settings, today, now, drawn)} :
                /\ rows' = r.rows
                /\ settings' = r.settings
                /\ drawn' = r.drawn
                /\ last' = WithId(LastOf("delete_transaction", IF r.raised THEN "raised" ELSE "done",
                                         rows, <<>>), transaction_id)
    /\ UNCHANGED <<ledger, op, result, pending, today, now>>

\* the first row with this id, 0 when there is none
FirstWithId(file, transaction_id) ==
    LET hits == {i \in DOMAIN file : file[i].id = transaction_id}
    IN  IF hits = {} THEN 0 ELSE CHOOSE i \in hits : \A j \in hits : i <= j

EditedRow_ResetsLink(row, e, clock) ==
    [row EXCEPT !.amount = FormatRawAmount(e.amount),
                !.description = e.description,
                !.category = e.category,
                !.device = e.device,
                !.date = isoformat(e.txn_date),
                !.shared_flag = IF e.shared_flag THEN "1" ELSE "0",
                !.shared_splits = e.shared_participants,
                !.shared_notes = e.shared_notes,
                !.linked_tx_id = "",
                !.timestamp = timestamp_isoformat(clock)]

EditedRow(row, e, clock) ==
    [row EXCEPT !.amount = FormatRawAmount(e.amount),
                !.description = e.description,
                !.category = e.category,
                !.device = e.device,
                !.date = isoformat(e.txn_date),
                !.shared_flag = IF e.shared_flag THEN "1" ELSE "0",
                !.shared_splits = e.shared_participants,
                !.shared_notes = e.shared_notes,
                !.timestamp = timestamp_isoformat(clock)]

\* _save_edited_transaction: overwrite the fields of the first row with this
\* id, one write, then the dashboard's refresh_metrics.  When that raises,
\* the except block writes the same rows once more and refreshes again.
SaveEditedTransaction ==
    /\ pending = <<>>
    /\ \E transaction_id \in RowIds(rows) \cup {"id0"}, e \in EditInputs :
       \E k \in {FirstWithId(rows, transaction_id)} :
          IF k = 0
          THEN /\ last' = WithId(LastOf("_save_edited_transaction", "not_found", rows, <<>>),
                                  transaction_id)
               /\ UNCHANGED <<rows, settings, drawn, now>>
          ELSE /\ now < MaxClock
               /\ \E r \in {refresh_metrics(
                               write_transactions([read_transactions(rows) EXCEPT
                                                      ![k] = EditedRow(rows[k], e, now)]),
                               settings, today, now, drawn)} :
                     /\ rows' = r.rows
                     /\ settings' = r.settings
                     /\ drawn' = r.drawn
                     /\ last' = WithId(LastOf("_save_edited_transaction",
                                              IF r.raised THEN "raised" ELSE "done", rows, <<>>),
                                       transaction_id)
               /\ now' = now + 1
    /\ UNCHANGED <<ledger, op, result, pending, today>>

\* one entry of the participants field: name:amount, or the name alone
ParticipantPart(item) ==
    IF item.amount # None THEN item.name \o ":" \o FloatRepr(item.amount[1]) ELSE item.name

RECURSIVE JoinParts(_)
JoinParts(items) ==
    IF Len(items) = 1 THEN ParticipantPart(items[1])
    ELSE ParticipantPart(items[1]) \o ", " \o JoinParts(Tail(items))

\* the text edit_transaction puts into shared_participants_input for a row
\* whose shared_flag column reads "true": the parsed splits joined, or the
\* column's text when it is no list of objects
ParticipantsText(shared_splits) ==
    IF shared_splits = "" \/ shared_splits = "[]" THEN ""
    ELSE IF json_loads(shared_splits).kind = "list"
    THEN JoinParts(json_loads(shared_splits).items)
    ELSE shared_splits

\* the device the spinner shows, read back by the submit handler
DialogDevice(row) ==
    IF Lower(row.tx_type) = "income"
    THEN (IF Upper(row.device) = "CASH" \/ row.device = "" THEN "PAYCHECK" ELSE Upper(row.device))
    ELSE Upper(Strip(row.device))

\* what handle_submit_wrapper reads from the dialog edit_transaction filled
\* from the row, when the user changes no field (dates are stored in ISO
\* form, the first format _parse_date_or_today tries)
DialogFields(row, today_value) ==
    [amount |-> 10 * OrElse(ParseFloat(row.amount), 0),
     description |-> Strip(row.description),
     category |-> Strip(row.category),
     device |-> DialogDevice(row),
     txn_date |-> OrElse(fromisoformat(Strip(row.date)), today_value),
     shared_flag |-> Lower(row.shared_flag) = "true",
     shared_participants |-> IF Lower(row.shared_flag) = "true"
                             THEN ParticipantsText(row.shared_splits) ELSE "",
     shared_notes |-> Strip(row.shared_notes)]

\* edit_transaction and the dialog's submit with every field as it was
\* filled in: handle_submit_wrapper calls _save_edited_transaction; a text in
\* the amount field that is no float ends the handler with "Invalid amount"
EditTransaction ==
    /\ pending = <<>>
    /\ \E transaction_id \in RowIds(rows) :
       \E k \in {FirstWithId(rows, transaction_id)} :
          IF ParseFloat(rows[k].amount) = None
          THEN /\ last' = WithId(LastOf("edit_transaction", "invalid", rows, <<>>),
                                  transaction_id)
               /\ UNCHANGED <<rows, settings, drawn, now>>
          ELSE /\ now < MaxClock
               /\ \E r \in {refresh_metrics(
                               write_transactions([read_transactions(rows) EXCEPT
                                   ![k] = EditedRow(rows[k], DialogFields(rows[k], today), now)]),
                               settings, today, now, drawn)} :
                     /\ rows' = r.rows
                     /\ settings' = r.settings
                     /\ drawn' = r.drawn
                     /\ last' = WithId(LastOf("edit_transaction",
                                              IF r.raised THEN "raised" ELSE "done", rows, <<>>),
                                       transaction_id)
               /\ now' = now + 1
    /\ UNCHANGED <<ledger, op, result, pending, today>>

\* SettingsScreen.clear_outstanding_debt: the dashboard's clear_outstanding_debt,
\* run from the settings button
ClearOutstandingDebt ==
    /\ pending = <<>>
    /\ \E c \in {clear_outstanding_debt(rows, settings, today, now, drawn)} :
          /\ Len(c.rows) <= MaxRows
          /\ c.drawn <= MaxDrawn
          /\ rows' = c.rows
          /\ settings' = c.settings
          /\ drawn' = c.drawn
          /\ last' = [today |-> today] @@
                         LastOf("clear_outstanding_debt", IF c.cleared THEN "done" ELSE "nothing",
                                rows, <<>>)
    /\ UNCHANGED <<ledger, op, result, pending, today, now>>

NextApp ==
    \/ SubmitExpense
    \/ AppendPending
    \/ Crash
    \/ SubmitIncome
    \/ DeleteTransaction
    \/ SaveEditedTransaction
    \/ EditTransaction
    \/ ClearOutstandingDebt

SpecApp == InitApp /\ [][NextApp]_vars

(***************************************************************************)
(* Claims about the persisted ledger                                       *)
(***************************************************************************)
\* the rows that carry this link id
LinkedRows(file, link_id) == {i \in DOMAIN file : file[i].linked_tx_id = link_id}

\* C9: whenever no handler is in the middle of its writes (it has finished,
\* or it was cut off between two of them), every persisted row with a
\* non-empty linked_tx_id has exactly one other row with the same
\* linked_tx_id
C9_PairStoredWhole ==
    pending = <<>> =>
        \A i \in DOMAIN rows :
            rows[i].linked_tx_id # "" =>
                Cardinality(LinkedRows(rows, rows[i].linked_tx_id)) = 2

\* C10: submit_expense (and submit_income) append only after every built
\* transaction has passed validate_transaction; when one is rejected no row
\* is appended and the persisted ledger is as it was before the call
C10_ValidatedBeforeAppend ==
    last.handler \in {"submit_expense", "submit_income"} =>
        /\ last.status = "rejected" =>
              /\ \E i \in DOMAIN last.built : ~validate_transaction(last.built[i])
              /\ rows = last.before
              /\ pending = <<>>
        /\ last.status \in {"appending", "crashed", "done"} =>
              /\ \A i \in DOMAIN last.built : validate_transaction(last.built[i])
              /\ \E k \in 0..Len(last.built) :
                    /\ k + Len(pending) = Len(last.built) \/ last.status = "crashed"
                    /\ rows = last.before
                                \o [i \in 1..k |-> transaction_to_row(last.built[i])]

\* a credit-card pair whose amount normalizes to 0 was rejected while the
\* ledger already held rows
C10_Witness ==
    /\ last.handler = "submit_expense"
    /\ last.status = "rejected"
    /\ Len(last.built) = 2
    /\ last.built[1].amount = 0
    /\ rows # <<>>
    /\ rows = last.before

\* the persisted rows that transaction_from_row reads back, decoded
Decoded(file, clock, today_value) ==
    [i \in {j \in DOMAIN file : ~transaction_from_row_raises(file[j])} |->
        transaction_from_row(file[i], clock, today_value)]

\* C11: every persisted row, decoded with transaction_from_row, passes
\* validate_transaction: amount > 0, device allowed, tx_type allowed
C11_PersistedRowsValid ==
    \A i \in DOMAIN Decoded(rows, now, today) :
        validate_transaction(Decoded(rows, now, today)[i])

(***************************************************************************)
(* Validation specification: one Transaction, then validate_transaction    *)
(***************************************************************************)
ValidatedTypes == {"income", "expense", "transfer", "gift"}
ValidatedDevices == {"", "UPI", "upi", "PAYCHECK"}
ValidatedAmounts == {-500, 0, 1, 300}

InitValidate ==
    /\ \E tx_type \in ValidatedTypes, device \in ValidatedDevices, amount \in ValidatedAmounts :
          ledger = << Transaction("id1", 1, tx_type, DEFAULT_SUB_TYPE, amount, Date1,
                                  "lunch", "Food", device, TRUE, FALSE, <<>>, "") >>
    /\ op = NoOp
    /\ result = NoResult
    /\ rows = <<>>
    /\ pending = <<>>
    /\ last = NoLast
    /\ settings = NoSettings
    /\ today = Date1
    /\ drawn = 1
    /\ now = 2

\* validate_transaction(tx): returns (ok, errors) and assigns nothing to tx
Validate ==
    /\ result.kind = "none"
    /\ result' = [kind |-> "validation", tx |-> ledger[1],
                  ok |-> validate_transaction(ledger[1]),
                  errors |-> validation_errors(ledger[1])]
    /\ UNCHANGED <<ledger, op, rows, pending, last, settings, today, drawn, now>>

NextValidate == Validate

SpecValidate == InitValidate /\ [][NextValidate]_vars

\* the rules of validate_transaction that tx violates
ViolatedRules(tx) ==
    {rule \in {"tx_type", "device", "amount"} :
        \/ rule = "tx_type" /\ tx.tx_type \notin {"income", "expense", "transfer"}
        \/ rule = "device" /\ tx.device # "" /\ tx.device \notin ALLOWED_DEVICES
        \/ rule = "amount" /\ ~(tx.amount > 0)}

\* C12: ok is true exactly when no rule is violated, the error list has one
\* entry per violated rule, and the transaction is as it was
C12_AllViolationsReported ==
    result.kind = "validation" =>
        /\ result.ok <=> ViolatedRules(result.tx) = {}
        /\ Len(result.errors) = Cardinality(ViolatedRules(result.tx))
        /\ \A i, j \in DOMAIN result.errors : i # j => result.errors[i] # result.errors[j]
        /\ ledger[1] = result.tx

\* a transaction that breaks all three rules got three errors
C12_Witness ==
    /\ result.kind = "validation"
    /\ ~result.ok
    /\ Cardinality(ViolatedRules(result.tx)) = 3
    /\ Len(result.errors) = 3

(***************************************************************************)
(* Codec specification: Transactions built by one factory call, or one raw *)
(* row; then transaction_to_row and transaction_from_row                   *)
(***************************************************************************)
CodecSplits ==
    { <<>>,
      << [name |-> "ann", amount |-> None] >>,
      << [name |-> "ann", amount |-> Some(150)], [name |-> "bob", amount |-> None] >>,
      << [name |-> " ann ", amount |-> None] >>,
      << [name |-> "", amount |-> None] >> }
CodecCalls ==
    [f : {"expense", "income", "cc_expense"}, amount : {3000, -1256}, date : {Date1},
     description : {"lunch"}, category : {"Food"}, device : {"upi"},
     shared_flag : BOOLEAN, shared_splits : CodecSplits, shared_notes : {"trip"}]

CodecApply(c, n, ts) ==
    CASE c.f = "expense" ->
           << create_expense_transaction(n + 1, ts, c.amount, c.date, c.description, c.category,
                  c.device, DEFAULT_SUB_TYPE, TRUE, c.shared_flag, c.shared_splits, c.shared_notes) >>
      [] c.f = "income" ->
           << create_income_transaction(n + 1, ts, c.amount, c.date, c.description, c.category,
                  c.device, DEFAULT_SUB_TYPE, TRUE, c.shared_flag, c.shared_splits, c.shared_notes) >>
      [] c.f = "cc_expense" ->
           create_credit_card_expense(n + 1, ts, c.amount, c.date, c.description, c.category,
                  c.device, c.shared_flag, c.shared_splits, c.shared_notes)

\* raw rows: a row as transaction_to_row writes it, with cells overwritten
BaseRow ==
    transaction_to_row(create_expense_transaction(1, 1, 3000, Date2, "lunch", "Food", "upi",
                           DEFAULT_SUB_TYPE, TRUE, FALSE, <<>>, ""))
RawAmounts == {"3.00", "abc", ""}
RawDates == {"2025-01-25", "25/01/2025"}
RawTimestamps == {"2025-01-01T00:00:01", "yesterday"}
RawFlags == {"True", "1", "0"}
RawSplits ==
    {"", "7", "null", "ann:1.0, bob", "[]",
     "[{\"name\": \"ann\", \"amount\": null}, {\"name\": \" \", \"amount\": 1.5}]"}
RawRows ==
    { [BaseRow EXCEPT !.amount = a, !.date = d, !.timestamp = t,
                      !.shared_flag = f, !.shared_splits = x] :
        a \in RawAmounts, d \in RawDates, t \in RawTimestamps, f \in RawFlags, x \in RawSplits }

InitCodec ==
    /\ \/ \E c \in CodecCalls :
             /\ ledger = CodecApply(c, 0, 1)
             /\ op = [call |-> c, count |-> Len(CodecApply(c, 0, 1))]
             /\ rows = <<>>
       \/ \E row \in RawRows :
             /\ ledger = <<>>
             /\ op = NoOp
             /\ rows = <<row>>
    /\ result = NoResult
    /\ pending = <<>>
    /\ last = NoLast
    /\ settings = NoSettings
    /\ today = Today25
    /\ drawn = 3
    /\ now = 2

\* transaction_to_row on every Transaction the factory returned
Encode ==
    /\ ledger # <<>>
    /\ rows = <<>>
    /\ rows' = write_transactions([i \in DOMAIN ledger |-> transaction_to_row(ledger[i])])
    /\ result' = [kind |-> "encoded", transactions |-> <<>>]
    /\ UNCHANGED <<ledger, op, pending, last, settings, today, drawn, now>>

\* transaction_from_row on every row
Decode ==
    /\ rows # <<>>
    /\ result.kind \in {"none", "encoded"}
    /\ IF \E i \in DOMAIN rows : transaction_from_row_raises(rows[i])
       THEN result' = [kind |-> "raised", transactions |-> <<>>]
       ELSE result' = [kind |-> "decoded",
                       transactions |-> [i \in DOMAIN rows |-> transaction_from_row(rows[i], now, today)]]
    /\ UNCHANGED <<ledger, op, rows, pending, last, settings, today, drawn, now>>

NextCodec == Encode \/ Decode

SpecCodec == InitCodec /\ [][NextCodec]_vars

(***************************************************************************)
(* Claims about the codec                                                  *)
(***************************************************************************)
\* C13: a Transaction built by a factory or by transaction_from_row has
\* shared_flag only with non-empty shared_splits, and transaction_to_row
\* writes "True" only for such a Transaction
C13_SharedFlagNeedsSplits ==
    /\ \A i \in DOMAIN ledger : ledger[i].shared_flag => ledger[i].shared_splits # <<>>
    /\ result.kind = "decoded" =>
          \A i \in DOMAIN result.transactions :
              result.transactions[i].shared_flag => result.transactions[i].shared_splits # <<>>
    /\ (ledger # <<>> /\ rows # <<>>) =>
          \A i \in DOMAIN rows :
              rows[i].shared_flag = "True" =>
                  ledger[i].shared_flag /\ ledger[i].shared_splits # <<>>

\* a factory called with shared_flag and no splits: built, written and read
\* back as not shared
C13_Witness ==
    /\ op.count > 0
    /\ op.call.shared_flag
    /\ op.call.shared_splits = <<>>
    /\ ~ledger[1].shared_flag
    /\ result.kind = "decoded"
    /\ rows[1].shared_flag = "False"
    /\ ~result.transactions[1].shared_flag

\* C14: a valid factory-built Transaction written with transaction_to_row and
\* read back with transaction_from_row is the same Transaction in every field
C14_RoundTrip ==
    (ledger # <<>> /\ result.kind = "decoded") =>
        \A i \in DOMAIN ledger :
            validate_transaction(ledger[i]) => result.transactions[i] = ledger[i]

\* C15: transaction_from_row raises for no row; a malformed timestamp, date
\* or amount decodes to now, today and 0.0, and a shared_splits cell that is
\* not a JSON array of name/amount objects decodes to no splits and a false
\* shared_flag
C15_DecodeNeverRaises ==
    (op = NoOp /\ result.kind # "none") =>
        /\ result.kind = "decoded"
        /\ rows[1].timestamp = "yesterday" => result.transactions[1].timestamp = now
        /\ rows[1].date = "25/01/2025" => result.transactions[1].date = today
        /\ rows[1].amount \in {"abc", ""} => result.transactions[1].amount = 0
        /\ rows[1].shared_splits \in {"", "7", "null", "ann:1.0, bob", "[]"} =>
              /\ result.transactions[1].shared_splits = <<>>
              /\ ~result.transactions[1].shared_flag

(***************************************************************************)
(* Claims about debt clearance and borrowed debt                           *)
(***************************************************************************)
\* the description create_debt_clearance_transaction gives its reset entry
DEBT_RESET_MARKER == "Debt cleared"

\* C16: once a transaction whose description is the debt-reset marker is the
\* last of the ledger, compute_outstanding_debt reports no debt: everything
\* before the reset is left out
C16_ResetTruncatesDebt ==
    (op.count = 1 /\ ledger[Len(ledger)].description = DEBT_RESET_MARKER) =>
        compute_outstanding_debt(ledger) = <<0, 0>>

\* C17: on a ledger with outstanding debt D > 0, appending
\* create_debt_clearance_transaction(amount=D, ...) leaves compute_balance
\* unchanged and makes compute_outstanding_debt report no debt
C17_ClearanceZeroesDebt ==
    (/\ op.call.f = "clearance"
     /\ CreditCardDebt(Before) + BorrowedDebt(Before) > 0
     /\ normalize_amount(op.call.amount) = CreditCardDebt(Before) + BorrowedDebt(Before)) =>
        /\ \A b \in Balances : compute_balance(ledger, b) = compute_balance(Before, b)
        /\ CreditCardDebt(ledger) + BorrowedDebt(ledger) = 0

\* the expense the last call appended, for a call that returns one expense
Appended == ledger[Len(ledger)]
MarksRepayment(tx) == AnyTermIn({"payment", "cleared"}, Lower(tx.description))
InDebtCleared(tx) == Contains(Lower(tx.category), Lower(DEBT_CLEARED_CATEGORY))

\* C18: an appended DEBT_BORROWED expense raises borrowed_debt by its amount
\* unless its description marks a payment or clearing; every appended expense
\* of a category containing "debt cleared" lowers borrowed_debt by
\* min(borrowed_debt, amount); borrowed_debt is never negative; a
\* DEBT_BORROWED transaction leaves compute_balance as it was
C18_BorrowedDebtRules ==
    /\ BorrowedDebt(ledger) >= 0
    /\ op.call.f \in {"expense", "cc_payment"} =>
          /\ (Appended.device = "DEBT_BORROWED" /\ ~MarksRepayment(Appended)) =>
                BorrowedDebt(ledger) = BorrowedDebt(Before) + Appended.amount
          /\ InDebtCleared(Appended) =>
                BorrowedDebt(ledger)
                  = BorrowedDebt(Before) - Min(BorrowedDebt(Before), Appended.amount)
    /\ (op.count = 1 /\ Appended.device = "DEBT_BORROWED") =>
          \A b \in Balances : compute_balance(ledger, b) = compute_balance(Before, b)

\* C18 as the code has it: the "debt cleared" rule applies to the expenses
\* whose device is not DEBT_BORROWED, and a DEBT_BORROWED expense marked as a
\* payment or clearing leaves borrowed_debt as it was
C18_BorrowedDebtRulesByDevice ==
    /\ BorrowedDebt(ledger) >= 0
    /\ op.call.f \in {"expense", "cc_payment"} =>
          /\ (Appended.device = "DEBT_BORROWED" /\ ~MarksRepayment(Appended)) =>
                BorrowedDebt(ledger) = BorrowedDebt(Before) + Appended.amount
          /\ (Appended.device = "DEBT_BORROWED" /\ MarksRepayment(Appended)) =>
                BorrowedDebt(ledger) = BorrowedDebt(Before)
          /\ (Appended.device # "DEBT_BORROWED" /\ InDebtCleared(Appended)) =>
                BorrowedDebt(ledger)
                  = BorrowedDebt(Before) - Min(BorrowedDebt(Before), Appended.amount)
    /\ (op.count = 1 /\ Appended.device = "DEBT_BORROWED") =>
          \A b \in Balances : compute_balance(ledger, b) = compute_balance(Before, b)

\* a "debt cleared" expense larger than the borrowed debt has brought it to
\* zero, on a ledger that held a DEBT_BORROWED expense
C18_Witness ==
    /\ op.call.f = "expense"
    /\ Appended.device # "DEBT_BORROWED"
    /\ InDebtCleared(Appended)
    /\ BorrowedDebt(Before) > 0
    /\ Appended.amount > BorrowedDebt(Before)
    /\ BorrowedDebt(ledger) = 0

(***************************************************************************)
(* Billing-cycle specification: logic.get_billing_cycle and the dashboard's *)
(* get_current_billing_cycle on one calendar date                          *)
(***************************************************************************)
\* d - timedelta(days=1)
DayBefore(d) ==
    IF d[3] > 1 THEN <<d[1], d[2], d[3] - 1>>
    ELSE <<PrevMonth(d)[1], PrevMonth(d)[2], DaysInMonth(PrevMonth(d)[1], PrevMonth(d)[2])>>

\* d + timedelta(days=1)
DayAfter(d) ==
    IF d[3] < DaysInMonth(d[1], d[2]) THEN <<d[1], d[2], d[3] + 1>>
    ELSE IF d[2] = 12 THEN <<d[1] + 1, 1, 1>>
    ELSE <<d[1], d[2] + 1, 1>>

\* d + timedelta(days=n)
RECURSIVE PlusDays(_, _)
PlusDays(d, n) == IF n = 0 THEN d ELSE PlusDays(DayAfter(d), n - 1)

\* d.replace(day=k)
ReplaceDay(d, k) == <<d[1], d[2], k>>

get_current_billing_cycle(today_value) ==
    IF today_value[3] >= 19
    THEN << <<today_value[1], today_value[2], 19>>,
            ReplaceDay(DayBefore(ReplaceDay(PlusDays(ReplaceDay(today_value, 28), 4), 1)), 18) >>
    ELSE << ReplaceDay(DayBefore(ReplaceDay(today_value, 1)), 19),
            <<today_value[1], today_value[2], 18>> >>

CycleYears == {2024, 2025}
CycleDates ==
    { <<y, m, d>> : y \in CycleYears, m \in 1..12, d \in 1..31 }
        \cap { dt \in CycleYears \X (1..12) \X (1..31) : dt[3] <= DaysInMonth(dt[1], dt[2]) }

InitCycle ==
    /\ today \in CycleDates
    /\ result = NoResult
    /\ ledger = <<>>
    /\ op = NoOp
    /\ rows = <<>>
    /\ pending = <<>>
    /\ last = NoLast
    /\ settings = NoSettings
    /\ drawn = 0
    /\ now = 1

\* both cycle functions on the same date
BillingCycle ==
    /\ result.kind = "none"
    /\ result' = [kind |-> "cycle",
                  cycle |-> get_billing_cycle(today),
                  current |-> get_current_billing_cycle(today)]
    /\ UNCHANGED <<ledger, op, rows, pending, last, settings, today, drawn, now>>

NextCycle == BillingCycle

SpecCycle == InitCycle /\ [][NextCycle]_vars

NextMonthOf(d) == IF d[2] = 12 THEN <<d[1] + 1, 1>> ELSE <<d[1], d[2] + 1>>

\* C19: get_billing_cycle(d) starts on a 19th, ends on the 18th of the month
\* after the start, holds d, and is the cycle the dashboard's
\* get_current_billing_cycle gives for the same day
C19_CycleFrom19To18 ==
    result.kind = "cycle" =>
        /\ result.cycle[1][3] = 19
        /\ result.cycle[2] = <<NextMonthOf(result.cycle[1])[1], NextMonthOf(result.cycle[1])[2], 18>>
        /\ DateLeq(result.cycle[1], today)
        /\ DateLeq(today, result.cycle[2])
        /\ result.cycle = result.current

(***************************************************************************)
(* Monthly clearing specification: the dashboard is entered again and      *)
(* again while the calendar moves on                                       *)
(***************************************************************************)
MaxCalls == 2
ClearDays ==
    { <<2025, 1, 18>>, <<2025, 1, 19>>, <<2025, 1, 20>>, <<2025, 1, 31>>,
      <<2025, 2, 18>>, <<2025, 2, 19>>, <<2025, 2, 20>> }
ClearStored == {"", "2024-12-19", "19/01/2025"}
ClearFiles ==
    { <<>>,
      << transaction_to_row(create_expense_transaction(1, 1, 3000, Date1, "lunch", "Food",
             "CREDIT_CARD", DEFAULT_CREDIT_CARD_EXPENSE_SUB_TYPE, FALSE, FALSE, <<>>, "")) >>,
      << [BaseRow EXCEPT !.shared_splits = "7"] >> }

SameMonth(a, b) == a[1] = b[1] /\ a[2] = b[2]

InitClear ==
    /\ rows \in ClearFiles
    /\ \E stored \in ClearStored : settings = [last_debt_cleared |-> stored]
    /\ today \in ClearDays
    /\ result = [kind |-> "auto_clear", runs |-> <<>>, calls |-> 0]
    /\ ledger = <<>>
    /\ op = NoOp
    /\ pending = <<>>
    /\ last = LastOf("none", "none", <<>>, <<>>)
    /\ drawn = 1
    /\ now = 2

\* DashboardScreen.on_pre_enter: refresh_metrics.  runs logs the days on
\* which the call took the clearing branch, calls counts the calls of the day.
RefreshMetrics ==
    /\ result.calls < MaxCalls
    /\ \E r \in {refresh_metrics(rows, settings, today, now, drawn)} :
          /\ rows' = r.rows
          /\ settings' = r.settings
          /\ drawn' = r.drawn
          /\ result' = [result EXCEPT
                           !.calls = @ + 1,
                           !.runs = IF ~r.raised /\ should_clear_debt(settings, today)
                                    THEN Append(@, today) ELSE @]
    /\ UNCHANGED <<ledger, op, pending, last, today, now>>

\* the app is next opened on a later day
NextDay ==
    /\ \E d \in ClearDays :
          /\ DateBefore(today, d)
          /\ today' = d
    /\ result' = [result EXCEPT !.calls = 0]
    /\ UNCHANGED <<ledger, op, rows, pending, last, settings, drawn, now>>

NextClear ==
    \/ RefreshMetrics
    \/ ClearOutstandingDebt
    \/ NextDay

SpecClear == InitClear /\ [][NextClear]_vars

SAVINGS_WITHDRAW_CATEGORY_KEYS == {"taken from savings"}
SAVINGS_CATEGORY_LABELS ==
    [k \in {"savings fd", "savings rd", "savings gold", "savings"} |->
        CASE k = "savings fd" -> "Savings FD"
          [] k = "savings rd" -> "Savings RD"
          [] k = "savings gold" -> "Savings Gold"
          [] k = "savings" -> "Savings"]
SAVINGS_INITIAL_SETTING_KEYS ==
    [l \in {"Savings", "Savings FD", "Savings RD", "Savings Gold"} |->
        CASE l = "Savings" -> "initial_savings_balance"
          [] l = "Savings FD" -> "initial_savings_fd_balance"
          [] l = "Savings RD" -> "initial_savings_rd_balance"
          [] l = "Savings Gold" -> "initial_savings_gold_balance"]

\* float(settings.get(setting_key, 0.0)), 0.0 when it is no number: a stored
\* value is Some(cents), or None for text that float() rejects
InitialValue(stored, setting_key) ==
    IF setting_key \notin DOMAIN stored THEN 0
    ELSE IF stored[setting_key] = None THEN 0
    ELSE stored[setting_key][1]

SavingsStep_NoStrip(totals, tx) ==
    IF tx.tx_type = "expense"
    THEN IF Lower(tx.category) \in DOMAIN SAVINGS_CATEGORY_LABELS
         THEN [totals EXCEPT ![SAVINGS_CATEGORY_LABELS[Lower(tx.category)]] = @ + tx.amount]
         ELSE totals
    ELSE IF tx.tx_type = "income"
    THEN IF Lower(tx.category) \in SAVINGS_WITHDRAW_CATEGORY_KEYS \/ tx.device = "SAVINGS_WITHDRAW"
         THEN [totals EXCEPT !["Savings"] = @ - tx.amount]
         ELSE totals
    ELSE totals

\* one iteration of the loop over the transactions
SavingsStep(totals, tx) ==
    IF tx.tx_type = "expense"
    THEN IF Lower(Strip(tx.category)) \in DOMAIN SAVINGS_CATEGORY_LABELS
         THEN [totals EXCEPT ![SAVINGS_CATEGORY_LABELS[Lower(Strip(tx.category))]] = @ + tx.amount]
         ELSE totals
    ELSE IF tx.tx_type = "income"
    THEN IF Lower(Strip(tx.category)) \in SAVINGS_WITHDRAW_CATEGORY_KEYS \/ tx.device = "SAVINGS_WITHDRAW"
         THEN [totals EXCEPT !["Savings"] = @ - tx.amount]
         ELSE totals
    ELSE totals

RECURSIVE SavingsPass(_, _, _)
SavingsPass(transactions, i, totals) ==
    IF i > Len(transactions) THEN totals
    ELSE SavingsPass(transactions, i + 1, SavingsStep(totals, transactions[i]))

\* stored is what read_settings() returns
compute_savings_totals(transactions, stored) ==
    SavingsPass(transactions, 1,
        [l \in DOMAIN SAVINGS_INITIAL_SETTING_KEYS |->
            InitialValue(stored, SAVINGS_INITIAL_SETTING_KEYS[l])])

SavingsCategories ==
    {"Savings", " savings fd ", "Savings RD", "savings gold", "Taken From Savings", "Food"}
SavingsCalls ==
    [f : {"expense", "income"}, amount : {3000}, date : {Date1}, description : {"move"},
     category : SavingsCategories, device : {"upi", "savings_withdraw"}]
SavingsSettings ==
    { [initial_savings_balance |-> Some(10000), initial_savings_fd_balance |-> Some(500),
       initial_savings_rd_balance |-> None, initial_savings_gold_balance |-> Some(0)],
      [initial_savings_balance |-> Some(0), initial_savings_fd_balance |-> Some(0),
       initial_savings_rd_balance |-> Some(0), initial_savings_gold_balance |-> Some(0)] }

InitSavings ==
    /\ \E calls \in UNION { [1..k -> SavingsCalls] : k \in 0..MaxSeed } :
          /\ ledger = BuildLedger(calls, 1, <<>>, 0)
          /\ drawn = Len(calls)
          /\ now = Len(calls) + 1
    /\ settings \in SavingsSettings
    /\ op = NoOp
    /\ result = NoResult
    /\ rows = <<>>
    /\ pending = <<>>
    /\ last = NoLast
    /\ today = Date1

ComputeSavings ==
    /\ result.kind = "none"
    /\ result' = [kind |-> "savings", totals |-> compute_savings_totals(ledger, settings)]
    /\ UNCHANGED <<ledger, op, rows, pending, last, settings, today, drawn, now>>

NextSavings == ComputeSavings

SpecSavings == InitSavings /\ [][NextSavings]_vars

CategoryKey(tx) == Lower(Strip(tx.category))
Withdrawal(tx) ==
    /\ tx.tx_type = "income"
    /\ (CategoryKey(tx) = "taken from savings" \/ tx.device = "SAVINGS_WITHDRAW")

\* C21: each bucket is its initial_savings_* setting plus the expenses whose
\* trimmed, lower-cased category is the bucket's label; savings-withdrawal
\* incomes are taken from the plain Savings bucket and from no other
C21_SavingsBuckets ==
    result.kind = "savings" =>
        \A k \in DOMAIN SAVINGS_CATEGORY_LABELS :
            result.totals[SAVINGS_CATEGORY_LABELS[k]]
              = InitialValue(settings, SAVINGS_INITIAL_SETTING_KEYS[SAVINGS_CATEGORY_LABELS[k]])
                + SumAmounts(ledger, {i \in DOMAIN ledger :
                      ledger[i].tx_type = "expense" /\ CategoryKey(ledger[i]) = k})
                - (IF k = "savings"
                   THEN SumAmounts(ledger, {i \in DOMAIN ledger : Withdrawal(ledger[i])})
                   ELSE 0)

\* a padded "savings fd" expense and a withdrawal by device were totalled
C21_Witness ==
    /\ result.kind = "savings"
    /\ Len(ledger) = 2
    /\ ledger[1].tx_type = "expense" /\ ledger[1].category = " savings fd "
    /\ ledger[2].tx_type = "income" /\ ledger[2].device = "SAVINGS_WITHDRAW"
    /\ ledger[2].category = "Food"
    /\ settings.initial_savings_fd_balance = Some(500)
    /\ result.totals["Savings FD"] = 800
    /\ result.totals["Savings"] = 9700

(***************************************************************************)
(* Storage specification: append_transaction on a file whose reads and     *)
(* writes can fail                                                         *)
(***************************************************************************)
FileAccess == {"ok", "denied"}

\* read_transactions: a FileNotFoundError or PermissionError gives []
ReadRows(file, read_access) ==
    IF read_access = "denied" THEN <<>> ELSE read_transactions(file)

\* append_transaction: [raised, rows].  write_transactions replaces the file
\* in one os.replace, or raises and leaves it as it was.
AppendRow(file, row, read_access, write_access) ==
    IF write_access = "denied"
    THEN [raised |-> TRUE, rows |-> file]
    ELSE [raised |-> FALSE,
          rows |-> write_transactions(Append(ReadRows(file, read_access), row))]

StoreRows == { [BaseRow EXCEPT !.id = i, !.description = d] : i \in {"id1", "id2"}, d \in {"lunch", "tea"} }

InitStore ==
    /\ rows = <<>>
    /\ op = NoOp
    /\ result = NoResult
    /\ ledger = <<>>
    /\ pending = <<>>
    /\ last = NoLast
    /\ settings = NoSettings
    /\ today = Date1
    /\ drawn = 0
    /\ now = 1

AppendTransaction ==
    /\ Len(rows) < MaxRows
    /\ \E row \in StoreRows, read_access \in FileAccess, write_access \in FileAccess :
       \E a \in {AppendRow(rows, row, read_access, write_access)} :
          /\ rows' = a.rows
          /\ result' = [kind |-> IF a.raised THEN "raised" ELSE "appended",
                        row |-> row, before |-> rows, read_access |-> read_access]
    /\ UNCHANGED <<ledger, op, pending, last, settings, today, drawn, now>>

NextStore == AppendTransaction

SpecStore == InitStore /\ [][NextStore]_vars

\* C22: append_transaction leaves the stored rows followed by row, or fails
\* with the stored rows unchanged, also when its read hits an access error
C22_AppendKeepsRows ==
    /\ result.kind = "appended" => rows = result.before \o <<result.row>>
    /\ result.kind = "raised" => rows = result.before

(***************************************************************************)
(* Claims about delete and edit                                            *)
(***************************************************************************)
OtherRows(file, transaction_id) == SelectSeq(file, LAMBDA row : row.id # transaction_id)

\* C23: delete_transaction(id) and _save_edited_transaction(id, ...) leave the
\* rows of other ids as they were and in their order; delete removes the rows
\* of that id and writes nothing when there is none; edit keeps the number of
\* rows and the edited row's id, position, tx_type, sub_type, effects_balance
\* and linked_tx_id
C23_OtherRowsUntouched ==
    /\ last.handler = "delete_transaction" =>
          /\ rows = OtherRows(last.before, last.transaction_id)
          /\ last.status = "not_found" <=> last.transaction_id \notin RowIds(last.before)
          /\ last.status = "not_found" => rows = last.before
    /\ last.handler = "_save_edited_transaction" =>
          /\ Len(rows) = Len(last.before)
          /\ last.status = "not_found" <=> last.transaction_id \notin RowIds(last.before)
          /\ last.status = "not_found" => rows = last.before
          /\ \A i \in DOMAIN rows :
                /\ rows[i].id = last.before[i].id
                /\ rows[i].tx_type = last.before[i].tx_type
                /\ rows[i].sub_type = last.before[i].sub_type
                /\ rows[i].effects_balance = last.before[i].effects_balance
                /\ rows[i].linked_tx_id = last.before[i].linked_tx_id
                /\ rows[i].id # last.transaction_id => rows[i] = last.before[i]

\* the second half of a linked credit-card pair was edited, the first was not
C23_Witness ==
    /\ last.handler = "_save_edited_transaction"
    /\ last.status = "done"
    /\ Len(rows) >= 2
    /\ rows[2].id = last.transaction_id
    /\ rows[2].linked_tx_id # ""
    /\ rows[2] # last.before[2]
    /\ rows[1] = last.before[1]

(***************************************************************************)
(* User specification: users.json (settings), the user_manager object and  *)
(* the screen shown (op), the last UserManager call (result)               *)
(***************************************************************************)
Usernames == {"ann", "bob", "cyd"}
UserTexts == {"ann", " bob ", "al", ""}

\* UserManager.__init__ on a data directory: current_user = None
NewUserManager == [current_user |-> None]

\* ensure_users_file, on a directory without users.json
NewUsersFile == [current_user |-> None, users |-> {}]

add_user_Overwrites(file, username) ==
    [returned |-> TRUE, file |-> [file EXCEPT !.users = @ \cup {username}]]

\* UserManager.add_user: [returned, file]
add_user(file, username) ==
    IF username \in file.users
    THEN [returned |-> FALSE, file |-> file]
    ELSE [returned |-> TRUE, file |-> [file EXCEPT !.users = @ \cup {username}]]

\* UserManager.set_current_user: [returned, file, current_user]; username is
\* None for a logout
set_current_user(file, current_user, username) ==
    IF username = None
    THEN [returned |-> TRUE, file |-> [file EXCEPT !.current_user = None], current_user |-> None]
    ELSE IF username[1] \notin file.users
    THEN [returned |-> FALSE, file |-> file, current_user |-> current_user]
    ELSE [returned |-> TRUE, file |-> [file EXCEPT !.current_user = username],
          current_user |-> username]

get_current_user(file) == file.current_user

\* MoneyTrackerScreenManager.set_initial_screen, run by on_screens when the
\* first screen is added; screen_names are the screens added so far
set_initial_screen(file, screen_names) ==
    IF get_current_user(file) # None /\ "dashboard" \in screen_names THEN "dashboard"
    ELSE IF "user" \in screen_names THEN "user"
    ELSE "none"

InitUser ==
    /\ settings = NewUsersFile
    /\ op = [current_user |-> NewUserManager.current_user,
             screen |-> set_initial_screen(NewUsersFile, {"user"})]
    /\ result = NoResult
    /\ ledger = <<>>
    /\ rows = <<>>
    /\ pending = <<>>
    /\ last = NoLast
    /\ today = Date1
    /\ drawn = 0
    /\ now = 1

CallRecord(kind, username, returned) ==
    [kind |-> kind, username |-> username, returned |-> returned,
     before |-> settings, current_user_before |-> op.current_user]

\* user_manager.add_user(username)
AddUser ==
    /\ \E username \in Usernames :
       \E a \in {add_user(settings, username)} :
          /\ settings' = a.file
          /\ result' = CallRecord("add_user", Some(username), a.returned)
    /\ UNCHANGED <<ledger, op, rows, pending, last, today, drawn, now>>

\* user_manager.set_current_user(username)
SetCurrentUser ==
    /\ \E username \in {None} \cup {Some(u) : u \in Usernames} :
       \E c \in {set_current_user(settings, op.current_user, username)} :
          /\ settings' = c.file
          /\ op' = [op EXCEPT !.current_user = c.current_user]
          /\ result' = CallRecord("set_current_user", username, c.returned)
    /\ UNCHANGED <<ledger, rows, pending, last, today, drawn, now>>

\* UserScreen.select_user: on success the dashboard is shown
SelectUser ==
    /\ op.screen = "user"
    /\ \E username \in settings.users :
       \E c \in {set_current_user(settings, op.current_user, Some(username))} :
          /\ settings' = c.file
          /\ op' = [current_user |-> c.current_user,
                    screen |-> IF c.returned THEN "dashboard" ELSE op.screen]
          /\ result' = CallRecord("set_current_user", Some(username), c.returned)
    /\ UNCHANGED <<ledger, rows, pending, last, today, drawn, now>>

\* UserScreen.add_user: the stripped text must have three characters; a new
\* user is selected at once
UserScreenAddUser ==
    /\ op.screen = "user"
    /\ \E text \in UserTexts :
       \E username \in {Strip(text)} :
          /\ username # ""
          /\ Len(username) >= 3
          /\ \E a \in {add_user(settings, username)} :
                IF a.returned
                THEN \E c \in {set_current_user(a.file, op.current_user, Some(username))} :
                        /\ settings' = c.file
                        /\ op' = [current_user |-> c.current_user,
                                  screen |-> IF c.returned THEN "dashboard" ELSE op.screen]
                        /\ result' = [CallRecord("set_current_user", Some(username), c.returned)
                                         EXCEPT !.before = a.file]
                ELSE /\ result' = CallRecord("add_user", Some(username), a.returned)
                     /\ UNCHANGED <<settings, op>>
    /\ UNCHANGED <<ledger, rows, pending, last, today, drawn, now>>

\* MoneyTrackerScreenManager.logout
Logout ==
    /\ op.screen = "dashboard"
    /\ \E c \in {set_current_user(settings, op.current_user, None)} :
          /\ settings' = c.file
          /\ op' = [current_user |-> c.current_user, screen |-> "user"]
          /\ result' = CallRecord("set_current_user", None, c.returned)
    /\ UNCHANGED <<ledger, rows, pending, last, today, drawn, now>>

\* the application is closed and started again: a new UserManager on the
\* same users.json, then build() adds the user screen first
Restart ==
    /\ op' = [current_user |-> NewUserManager.current_user,
              screen |-> set_initial_screen(settings, {"user"})]
    /\ result' = NoResult
    /\ UNCHANGED <<ledger, rows, pending, last, settings, today, drawn, now>>

NextUser ==
    \/ AddUser
    \/ SetCurrentUser
    \/ SelectUser
    \/ UserScreenAddUser
    \/ Logout
    \/ Restart

SpecUser == InitUser /\ [][NextUser]_vars

\* C24: add_user returns False and changes nothing for an existing name, adds
\* the name and returns True otherwise; set_current_user for a name that is no
\* user returns False and keeps the current user; so the current user, stored
\* and in memory, is None or a user
C24_UsersStayConsistent ==
    /\ result.kind = "add_user" =>
          IF result.username[1] \in result.before.users
          THEN ~result.returned /\ settings = result.before
          ELSE /\ result.returned
               /\ settings.users = result.before.users \cup {result.username[1]}
               /\ settings.current_user = result.before.current_user
    /\ (/\ result.kind = "set_current_user"
        /\ result.username # None
        /\ result.username[1] \notin result.before.users) =>
          /\ ~result.returned
          /\ settings = result.before
          /\ op.current_user = result.current_user_before
    /\ settings.current_user = None \/ settings.current_user[1] \in settings.users
    /\ op.current_user = None \/ op.current_user[1] \in settings.users

\* ann is logged in; add_user("ann") and set_current_user("cyd") were refused
C24_Witness ==
    /\ result.kind = "set_current_user"
    /\ result.username = Some("cyd")
    /\ ~result.returned
    /\ settings.users = {"ann", "bob"}
    /\ settings.current_user = Some("ann")
    /\ op.current_user = Some("ann")

\* C29: the user_manager.current_user that storage uses equals the
\* current_user stored in users.json that chooses the initial screen, also
\* after a restart
C29_MemoryMatchesStored ==
    /\ op.current_user = get_current_user(settings)
    /\ (op.screen = "dashboard" /\ get_current_user(settings) # None) =>
          op.current_user = get_current_user(settings)

(***************************************************************************)
(* Claims about clear_outstanding_debt                                     *)
(***************************************************************************)
InCycle(d, cycle) == DateLeq(cycle[1], d) /\ DateLeq(d, cycle[2])

\* the credit-card expenses of a cycle, by the date of each transaction
CycleExpenses(T, cycle) ==
    SumAmounts(T, {i \in DOMAIN T :
        /\ T[i].tx_type = "expense"
        /\ T[i].device \in {"CREDIT_CARD", "CREDIT_CARD_UPI"}
        /\ ~AnyTermIn(CLEARANCE_MARKERS, Upper(T[i].description))
        /\ InCycle(T[i].date, cycle)})

NoPayments(T, cycle) ==
    \A i \in DOMAIN T :
        ~(/\ T[i].tx_type = "income"
          /\ Contains(Upper(T[i].description), "CREDIT CARD PAYMENT")
          /\ InCycle(T[i].date, cycle))

Readable(file) == \A i \in DOMAIN file : ~transaction_from_row_raises(file[i])

\* C25: when the previous billing cycle holds credit-card expenses totalling
\* D > 0 and no payments, clear_outstanding_debt appends a payment row and a
\* clearance row of amount D, records last_debt_cleared and returns True; it
\* returns False, appending nothing, only when that total is 0
C25_ClearsPreviousCycle ==
    (/\ last.handler = "clear_outstanding_debt"
     /\ Readable(last.before)
     /\ NoPayments(Decoded(last.before, now, last.today), get_previous_billing_cycle(last.today))) =>
        /\ CycleExpenses(Decoded(last.before, now, last.today),
                         get_previous_billing_cycle(last.today)) > 0 =>
              /\ last.status = "done"
              /\ Len(rows) = Len(last.before) + 2
              /\ SubSeq(rows, 1, Len(last.before)) = last.before
              /\ \A i \in (Len(last.before) + 1)..Len(rows) :
                    rows[i].amount = FormatAmount(CycleExpenses(
                        Decoded(last.before, now, last.today),
                        get_previous_billing_cycle(last.today)))
              /\ fromisoformat(settings.last_debt_cleared) # None
        /\ last.status = "nothing" =>
              CycleExpenses(Decoded(last.before, now, last.today),
                            get_previous_billing_cycle(last.today)) = 0
(***************************************************************************)
(* Claims about what submit_expense persists                               *)
(***************************************************************************)
\* the transactions of the last submit_expense, as transaction_from_row
\* reads them back from the rows the handler appended
SubmittedBack ==
    [i \in {j \in DOMAIN last.built :
                \E k \in DOMAIN rows : rows[k] = transaction_to_row(last.built[j])} |->
        transaction_from_row(transaction_to_row(last.built[i]), now, today)]

\* C26: no expense persisted by submit_expense both lowers compute_balance
\* and raises credit_card_debt: every submitted expense that
\* compute_outstanding_debt counts as an expense-like credit-card item is
\* one that compute_balance skips
C26_NoDoubleCount ==
    (last.handler = "submit_expense" /\ last.status = "done") =>
        \A i \in DOMAIN SubmittedBack :
            ExpenseLike(SubmittedBack[i]) => ~Counted(SubmittedBack[i])


\* the row the last edit_transaction edited, as it was and as it is
EditedAt == FirstWithId(last.before, last.transaction_id)

\* C27: editing a shared transaction through the edit dialog and saving it
\* with its participants unchanged keeps it shared: read back with
\* transaction_from_row, shared_flag is still true and
\* compute_shared_allocations returns the allocations it returned before
C27_EditKeepsShared ==
    (/\ last.handler = "edit_transaction"
     /\ last.status \in {"done", "raised"}
     /\ ~transaction_from_row_raises(last.before[EditedAt])
     /\ transaction_from_row(last.before[EditedAt], now, today).shared_flag) =>
        /\ ~transaction_from_row_raises(rows[EditedAt])
        /\ transaction_from_row(rows[EditedAt], now, today).shared_flag
        /\ compute_shared_allocations(transaction_from_row(rows[EditedAt], now, today))
             = compute_shared_allocations(transaction_from_row(last.before[EditedAt], now, today))


(***************************************************************************)
(* Archive specification: one user's transactions.csv (rows, op.exists),   *)
(* the transactions_<Month>.csv files beside it (ledger), the user_manager *)
(* object (op.current_user), settings.json (settings) and every row that   *)
(* was ever written to transactions.csv (result)                           *)
(***************************************************************************)
MonthNames ==
    <<"January", "February", "March", "April", "May", "June", "July", "August",
      "September", "October", "November", "December">>

\* (today + relativedelta(months=-1)).strftime("%B")
LastMonthName(today_value) ==
    MonthNames[IF today_value[2] = 1 THEN 12 ELSE today_value[2] - 1]

ArchiveNames == {MonthNames[i] : i \in DOMAIN MonthNames}
ArchiveUser == "ann"
ArchiveDays == << <<2025, 1, 25>>, <<2025, 1, 26>>, <<2025, 2, 1>> >>

\* start_new_month_transactionfile: [rows, archives]; copyfile replaces an
\* archive of the same name
start_new_month_transactionfile(current_user, exists, file, archives, today_value) ==
    IF current_user = None THEN [rows |-> file, archives |-> archives]
    ELSE IF ~exists THEN [rows |-> file, archives |-> archives]
    ELSE [rows |-> <<>>,
          archives |-> [archives EXCEPT ![LastMonthName(today_value)] = Some(file)]]

\* date.today().strftime('%Y-%m')
YearMonth(today_value) == SubSeq(isoformat(today_value), 1, 7)

\* MoneyTrackerApp.on_start: [rows, archives, settings]
on_start(current_user, exists, file, archives, stored, today_value) ==
    IF current_user = None \/ stored.last_month_processed = YearMonth(today_value)
    THEN [rows |-> file, archives |-> archives, settings |-> stored]
    ELSE [rows |-> start_new_month_transactionfile(current_user, exists, file, archives,
                                                    today_value).rows,
          archives |-> start_new_month_transactionfile(current_user, exists, file, archives,
                                                        today_value).archives,
          settings |-> [stored EXCEPT !.last_month_processed = YearMonth(today_value)]]

InitArchive ==
    /\ rows = <<>>
    /\ ledger = [name \in ArchiveNames |-> None]
    /\ op = [current_user |-> NewUserManager.current_user, exists |-> FALSE]
    /\ settings = [last_month_processed |-> ""]
    /\ result = {}
    /\ today = ArchiveDays[1]
    /\ pending = <<>>
    /\ last = LastOf("none", "none", <<>>, <<>>)
    /\ drawn = 0
    /\ now = 1

\* UserScreen.select_user for the one user of this directory
Login ==
    /\ op.current_user = None
    /\ op' = [op EXCEPT !.current_user = Some(ArchiveUser)]
    /\ last' = LastOf("select_user", "done", rows, <<>>)
    /\ UNCHANGED <<ledger, result, rows, pending, settings, today, drawn, now>>

\* submit_income of a logged-in user with an amount that passes validation:
\* ensure_data_dir, then one append
AppendNew ==
    /\ op.current_user # None
    /\ drawn < MaxDrawn
    /\ \E c \in IncomeInputs :
       \E row \in {transaction_to_row(BuildIncome(c, today, now, drawn))} :
          /\ ~Rejected(<<BuildIncome(c, today, now, drawn)>>)
          /\ rows' = append_transaction(rows, row)
          /\ result' = result \cup {row}
    /\ op' = [op EXCEPT !.exists = TRUE]
    /\ drawn' = drawn + 1
    /\ last' = LastOf("submit_income", "done", rows, <<>>)
    /\ UNCHANGED <<ledger, pending, settings, today, now>>

\* SettingsScreen.start_new_month
StartNewMonth ==
    /\ op.current_user # None
    /\ \E f \in {start_new_month_transactionfile(op.current_user, op.exists, rows, ledger,
                                                   today)} :
          /\ rows' = f.rows
          /\ ledger' = f.archives
    /\ last' = LastOf("start_new_month", "done", rows, <<>>)
    /\ UNCHANGED <<op, result, pending, settings, today, drawn, now>>

\* the process starts again: a new UserManager, build, on_start
AppStart ==
    /\ \E f \in {on_start(NewUserManager.current_user, op.exists, rows, ledger, settings,
                            today)} :
          /\ rows' = f.rows
          /\ ledger' = f.archives
          /\ settings' = f.settings
    /\ op' = [op EXCEPT !.current_user = NewUserManager.current_user]
    /\ last' = LastOf("on_start", "done", rows, <<>>)
    /\ UNCHANGED <<result, pending, today, drawn, now>>

NextArchiveDay ==
    /\ \E i \in 1..(Len(ArchiveDays) - 1) :
          /\ today = ArchiveDays[i]
          /\ today' = ArchiveDays[i + 1]
    /\ UNCHANGED <<ledger, op, result, rows, pending, last, settings, drawn, now>>

NextArchive ==
    \/ Login
    \/ AppendNew
    \/ StartNewMonth
    \/ AppStart
    \/ NextArchiveDay

SpecArchive == InitArchive /\ [][NextArchive]_vars

\* the row is in this file
InFile(row, file) == \E i \in DOMAIN file : file[i] = row

\* C30: over any sequence of start_new_month_transactionfile calls (at
\* application start and from the settings screen, also twice in a month)
\* and appends, every row that was once in the active file is in the active
\* file or in an archive file
C30_NoRowLost ==
    \A row \in result :
        \/ InFile(row, rows)
        \/ \E name \in ArchiveNames : ledger[name] # None /\ InFile(row, ledger[name][1])


(***************************************************************************)
(* Claims about the order of the ledger                                    *)
(***************************************************************************)
\* the ledger read in the order perm
Reordered(T, perm) == [i \in DOMAIN T |-> T[perm[i]]]

\* C28: compute_outstanding_debt returns the same (credit_card_debt,
\* borrowed_debt) pair for every ordering of the transactions in the ledger
C28_DebtIgnoresOrder ==
    \A perm \in Permutations(DOMAIN ledger) :
        compute_outstanding_debt(Reordered(ledger, perm)) = compute_outstanding_debt(ledger)


====
